---- MODULE Spec2Model ----
(***************************************************************************)
(* Model of the workflow scanner (src/lib/workflow-scanner.ts): the pure   *)
(* function scanWorkflow applied to loosely-typed workflow JSON.           *)
(*                                                                         *)
(* JSON values are tagged records.  A text value (a widget value, a model  *)
(* name) carries its UTF-16 code units in v, so that String(), the default *)
(* Array.prototype.sort order and === are computed, not assumed.  A value  *)
(* that the code only tests for truthiness and compares with === (type,    *)
(* cnr_id, ver, directory) carries a TLA+ string in s.                     *)
(***************************************************************************)
EXTENDS Integers, Sequences, FiniteSets

VARIABLES data, pc, result, earlier

\* The component ScanResults and the page that holds it.
VARIABLES requiredModels, availability, check, outputName, isUploading

\* The upload: the request to /api/upload, the objects it leaves in the bucket,
\* the file the download button wrote, and what was marked required when the
\* upload or the download was asked for (history variables).
VARIABLES request, stored, downloaded, markedUpload, markedDownload

\* The route /api/check-availability: the bucket's objects, the lookups in
\* flight, the mapping it fills and its response.
VARIABLES bucket, lookups, routeAvailability, response

\* Two requests at /api/upload side by side (uploads) and the objects under
\* workflows/ (objects); the stream of /api/run-downloader (stream), the
\* component DownloadLogs that reads it (viewer), and a run of
\* wf-resources-downloader.sh (script).
VARIABLES uploads, objects, stream, viewer, script

componentVars == <<requiredModels, availability, check, outputName, isUploading>>
uploadVars == <<request, stored, downloaded, markedUpload, markedDownload>>
routeVars == <<bucket, lookups, routeAvailability, response>>
provisionVars == <<uploads, objects, stream, viewer, script>>

vars == <<data, pc, result, earlier, componentVars, uploadVars, routeVars, provisionVars>>

\* Largest number of elements of the nodes array in the graphs explored.
MaxNodes == 2

-----------------------------------------------------------------------------
(* JavaScript values                                                       *)

Undef == [k |-> "undef", v |-> <<>>]
Null == [k |-> "null", v |-> <<>>]
StrV(codes) == [k |-> "str", v |-> codes]
NumV(n) == [k |-> "num", v |-> <<n>>]
BoolV(b) == [k |-> "bool", v |-> <<IF b THEN 1 ELSE 0>>]

OUndef == [k |-> "undef", s |-> ""]
OStr(str) == [k |-> "str", s |-> str]

\* ToBoolean of a text/array/object value: "", 0, false, null and undefined
\* are falsy, every array and object is truthy.
Truthy(x) ==
    CASE x.k = "str" -> x.v # <<>>
      [] x.k = "num" -> x.v[1] # 0
      [] x.k = "bool" -> x.v[1] = 1
      [] x.k \in {"arr", "obj"} -> TRUE
      [] OTHER -> FALSE

\* ToBoolean of a value held as a TLA+ string.
OTruthy(x) == x.k = "str" /\ x.s # ""

RECURSIVE Digits(_)
\* Decimal digits of a natural number, as code units ("0" is 48).
Digits(n) == IF n < 10 THEN <<48 + n>> ELSE Digits(n \div 10) \o <<48 + (n % 10)>>

\* String(value) for a primitive value.
String(x) ==
    CASE x.k = "str" -> x.v
      [] x.k = "num" -> Digits(x.v[1])
      [] x.k = "bool" -> IF x.v[1] = 1 THEN <<116, 114, 117, 101>>
                                       ELSE <<102, 97, 108, 115, 101>>
      [] x.k = "null" -> <<110, 117, 108, 108>>
      [] OTHER -> <<117, 110, 100, 101, 102, 105, 110, 101, 100>>

\* a < b in UTF-16 code unit order (the order of the default sort comparator).
StrLess(a, b) ==
    \E i \in 1..Len(b) :
        /\ i <= Len(a) + 1
        /\ \A j \in 1..(i - 1) : a[j] = b[j]
        /\ (i = Len(a) + 1 \/ a[i] < b[i])

Front(seq) == SubSeq(seq, 1, Len(seq) - 1)
Last(seq) == seq[Len(seq)]
Range(seq) == {seq[i] : i \in 1..Len(seq)}

RECURSIVE Flat(_)
\* Array.prototype.flat() of an array of arrays.
Flat(arrays) == IF arrays = <<>> THEN <<>> ELSE Head(arrays) \o Flat(Tail(arrays))

RECURSIVE ArrayFromSet(_)
\* Array.from(new Set(arr)): the first occurrence of each value, in order.
ArrayFromSet(arr) ==
    IF arr = <<>> THEN <<>>
    ELSE LET r == ArrayFromSet(Front(arr))
         IN  IF Last(arr) \in Range(r) THEN r ELSE Append(r, Last(arr))

\* x put behind every element of the sorted array whose string is not greater.
InsertSorted(sorted, x) ==
    LET n == Cardinality({i \in 1..Len(sorted) :
                              ~StrLess(String(x), String(sorted[i]))})
    IN  SubSeq(sorted, 1, n) \o <<x>> \o SubSeq(sorted, n + 1, Len(sorted))

\* ArraySort with the sort left out.
ArraySort_unsorted(arr) == arr

RECURSIVE ArraySort(_)
\* Array.prototype.sort() without comparator: stable, by the elements' strings.
ArraySort(arr) ==
    IF arr = <<>> THEN <<>> ELSE InsertSorted(ArraySort(Front(arr)), Last(arr))

-----------------------------------------------------------------------------
(* The shape of a workflow (types.ts), widened to what JSON.parse yields   *)

\* widgets_values, properties.models and nodes: an array (items), or a value of
\* another kind (v holds a string's code units or a number).
Arr(items) == [k |-> "arr", v |-> <<>>, items |-> items]
NotArr(x) == [k |-> x.k, v |-> x.v, items |-> <<>>]
PlainObject == [k |-> "obj", v |-> <<>>, items |-> <<>>]
Absent == NotArr(Undef)

\* An element of properties.models: an object, or null / a number, whose
\* property reads throw / yield undefined.
Entry(directory, name) == [k |-> "obj", directory |-> directory, name |-> name]
NullEntry == [k |-> "null", directory |-> OUndef, name |-> Undef]
NumberEntry == [k |-> "num", directory |-> OUndef, name |-> Undef]

Properties(cnr_id, ver, models) ==
    [k |-> "obj", cnr_id |-> cnr_id, ver |-> ver, models |-> models]
NoProperties == [k |-> "undef", cnr_id |-> OUndef, ver |-> OUndef, models |-> Absent]
NullProperties == [k |-> "null", cnr_id |-> OUndef, ver |-> OUndef, models |-> Absent]

\* An element of nodes: an object, or null / a number.
Node(type, widgets_values, properties) ==
    [k |-> "obj", type |-> type, widgets_values |-> widgets_values,
     properties |-> properties]
NullNode ==
    [k |-> "null", type |-> OUndef, widgets_values |-> Absent,
     properties |-> NoProperties]
NumberNode ==
    [k |-> "num", type |-> OUndef, widgets_values |-> Absent,
     properties |-> NoProperties]

Workflow(nodes) == [nodes |-> nodes]

Categories ==
    {"checkpoints", "vae", "loras", "upscale_models", "controlnet", "clip",
     "clip_vision", "text_encoders", "diffusion_models", "embedding",
     "style_models", "hypernetworks", "gligen"}

-----------------------------------------------------------------------------
(* Property reads                                                          *)

\* Reading a property of null throws a TypeError; of a number, undefined.
ReadThrows(x) == x.k = "null"

\* node.widgets_values?.[widgetIndex]
WidgetValue(node, widgetIndex) ==
    LET w == node.widgets_values
    IN  CASE w.k = "arr" ->
                 IF widgetIndex < Len(w.items) THEN w.items[widgetIndex + 1] ELSE Undef
          [] w.k = "str" ->
                 IF widgetIndex < Len(w.v) THEN StrV(<<w.v[widgetIndex + 1]>>) ELSE Undef
          [] OTHER -> Undef

\* node.properties?.models
PropertiesModels(node) ==
    IF node.properties.k = "obj" THEN node.properties.models ELSE Absent

\* node.properties?.cnr_id
PropertiesCnrId(node) ==
    IF node.properties.k = "obj" THEN node.properties.cnr_id ELSE OUndef

\* x.filter(...) on a truthy value that is no array throws a TypeError.
FilterThrows(x) == Truthy(x) /\ x.k # "arr"

-----------------------------------------------------------------------------
(* workflow-scanner.ts                                                     *)

\* The callback of line 10 / line 29 reads node.type of every element.
TypeFilterThrows(workflow) ==
    \/ FilterThrows(workflow.nodes)
    \/ /\ workflow.nodes.k = "arr"
       /\ \E i \in 1..Len(workflow.nodes.items) : ReadThrows(workflow.nodes.items[i])

\* extractModelsThrows without the guard of line 7: filter is read of an
\* undefined nodes.
extractModelsThrows_noGuard(workflow, nodeType, widgetIndex) ==
    workflow.nodes.k \in {"undef", "null"} \/ TypeFilterThrows(workflow)

extractModelsThrows(workflow, nodeType, widgetIndex) ==
    Truthy(workflow.nodes) /\ TypeFilterThrows(workflow)

\* extractModels with the test `value != null && value !== ''`: 0 and false pass.
extractModels_keepFalsy(workflow, nodeType, widgetIndex) ==
    IF ~Truthy(workflow.nodes) THEN <<>>
    ELSE LET typed == SelectSeq(workflow.nodes.items,
                                LAMBDA node : node.type = OStr(nodeType))
             Value(node) ==
                 LET value == WidgetValue(node, widgetIndex)
                 IN  IF value.k \notin {"undef", "null"} /\ value # StrV(<<>>)
                     THEN StrV(String(value)) ELSE Null
             models == SelectSeq([i \in 1..Len(typed) |-> Value(typed[i])],
                                 LAMBDA value : value # Null)
         IN  ArraySort(ArrayFromSet(models))

extractModels(workflow, nodeType, widgetIndex) ==
    IF ~Truthy(workflow.nodes) THEN <<>>
    ELSE LET typed == SelectSeq(workflow.nodes.items,
                                LAMBDA node : node.type = OStr(nodeType))
             Value(node) ==
                 LET value == WidgetValue(node, widgetIndex)
                 IN  IF Truthy(value) /\ value # StrV(<<>>)
                     THEN StrV(String(value)) ELSE Null
             models == SelectSeq([i \in 1..Len(typed) |-> Value(typed[i])],
                                 LAMBDA value : value # Null)
         IN  ArraySort(ArrayFromSet(models))

\* The forEach of lines 30-38 on the nodes of the type: properties.models
\* must be an array when truthy, and none of its elements null.
extractModelsFromPropertiesThrows(workflow, nodeType, directory) ==
    /\ Truthy(workflow.nodes)
    /\ \/ TypeFilterThrows(workflow)
       \/ \E i \in 1..Len(workflow.nodes.items) :
              LET node == workflow.nodes.items[i]
                  m == PropertiesModels(node)
              IN  /\ node.type = OStr(nodeType)
                  /\ \/ FilterThrows(m)
                     \/ /\ m.k = "arr"
                        /\ \E j \in 1..Len(m.items) : ReadThrows(m.items[j])

\* extractModelsFromProperties with the directory test left out.
extractModelsFromProperties_anyDirectory(workflow, nodeType, directory) ==
    IF ~Truthy(workflow.nodes) THEN <<>>
    ELSE LET typed == SelectSeq(workflow.nodes.items,
                                LAMBDA node : node.type = OStr(nodeType))
             Names(node) ==
                 IF Truthy(PropertiesModels(node))
                 THEN LET kept == SelectSeq(PropertiesModels(node).items,
                                            LAMBDA model : Truthy(model.name))
                      IN  [j \in 1..Len(kept) |-> kept[j].name]
                 ELSE <<>>
             models == Flat([i \in 1..Len(typed) |-> Names(typed[i])])
         IN  ArraySort(ArrayFromSet(models))

extractModelsFromProperties(workflow, nodeType, directory) ==
    IF ~Truthy(workflow.nodes) THEN <<>>
    ELSE LET typed == SelectSeq(workflow.nodes.items,
                                LAMBDA node : node.type = OStr(nodeType))
             Names(node) ==
                 IF Truthy(PropertiesModels(node))
                 THEN LET kept == SelectSeq(PropertiesModels(node).items,
                                            LAMBDA model :
                                                /\ model.directory = OStr(directory)
                                                /\ Truthy(model.name))
                      IN  [j \in 1..Len(kept) |-> kept[j].name]
                 ELSE <<>>
             models == Flat([i \in 1..Len(typed) |-> Names(typed[i])])
         IN  ArraySort(ArrayFromSet(models))

\* mergeArrays reading its first argument alone.
mergeArrays_firstOnly(arrays) ==
    LET merged == SelectSeq(Head(arrays), LAMBDA item : item # StrV(<<>>))
    IN  ArraySort(ArrayFromSet(merged))

mergeArrays(arrays) ==
    LET merged == SelectSeq(Flat(arrays), LAMBDA item : item # StrV(<<>>))
    IN  ArraySort(ArrayFromSet(merged))

\* The filter callback of lines 58-61 reads node.properties of every element.
extractCustomNodesThrows(workflow) ==
    Truthy(workflow.nodes) /\ TypeFilterThrows(workflow)

\* MapValues keeping the value of a key's first entry.
MapValues_firstWins(entries) ==
    LET keys == ArrayFromSet([i \in 1..Len(entries) |-> entries[i][1]])
        ValueOf(key) ==
            LET first == CHOOSE i \in 1..Len(entries) :
                             /\ entries[i][1] = key
                             /\ \A j \in 1..(i - 1) : entries[j][1] # key
            IN  entries[first][2]
    IN  [i \in 1..Len(keys) |-> ValueOf(keys[i])]

\* new Map(entries).values(): one value per key, at the place of the key's
\* first entry, holding the value of the key's last entry.
MapValues(entries) ==
    LET keys == ArrayFromSet([i \in 1..Len(entries) |-> entries[i][1]])
        ValueOf(key) ==
            LET last == CHOOSE i \in 1..Len(entries) :
                            /\ entries[i][1] = key
                            /\ \A j \in (i + 1)..Len(entries) : entries[j][1] # key
            IN  entries[last][2]
    IN  [i \in 1..Len(keys) |-> ValueOf(keys[i])]

\* IsCustomNode without the test against the core sentinel.
IsCustomNode_keepCore(node) == OTruthy(PropertiesCnrId(node))

\* The nodes kept by the filter of lines 58-61.
IsCustomNode(node) ==
    OTruthy(PropertiesCnrId(node)) /\ PropertiesCnrId(node) # OStr("comfy-core")

\* CustomNodeOf with `ver ?? 'latest'`.
CustomNodeOf_nullish(node) ==
    [node |-> node.properties.cnr_id,
     version |-> IF node.properties.ver.k \notin {"undef", "null"}
                 THEN node.properties.ver ELSE OStr("latest")]

\* The projection of lines 62-65.
CustomNodeOf(node) ==
    [node |-> node.properties.cnr_id,
     version |-> IF OTruthy(node.properties.ver) THEN node.properties.ver
                 ELSE OStr("latest")]

\* extractCustomNodes without the Map of lines 68-70.
extractCustomNodes_noDedup(workflow) ==
    IF ~Truthy(workflow.nodes) THEN <<>>
    ELSE LET kept == SelectSeq(workflow.nodes.items, IsCustomNode)
         IN  [i \in 1..Len(kept) |-> CustomNodeOf(kept[i])]

extractCustomNodes(workflow) ==
    IF ~Truthy(workflow.nodes) THEN <<>>
    ELSE LET kept == SelectSeq(workflow.nodes.items, IsCustomNode)
             customNodes == [i \in 1..Len(kept) |-> CustomNodeOf(kept[i])]
             uniqueNodes ==
                 MapValues([i \in 1..Len(customNodes) |->
                                <<customNodes[i].node, customNodes[i]>>])
         IN  uniqueNodes

\* Whether a call throws does not depend on the node type an extractModels
\* call asks for, so one of the nineteen calls stands for all.
scanWorkflowThrows(workflowData) ==
    \/ extractCustomNodesThrows(workflowData)
    \/ extractModelsThrows(workflowData, "VAELoader", 0)
    \/ extractModelsFromPropertiesThrows(workflowData, "VAELoader", "vae")
    \/ extractModelsFromPropertiesThrows(workflowData, "DualCLIPLoader", "text_encoders")

scanWorkflow(workflowData) ==
    LET customNodes == extractCustomNodes(workflowData)
        vaeFromWidgets == extractModels(workflowData, "VAELoader", 0)
        vaeFromProps == extractModelsFromProperties(workflowData, "VAELoader", "vae")
        vae == mergeArrays(<<vaeFromWidgets, vaeFromProps>>)
        checkpointSimple == extractModels(workflowData, "CheckpointLoaderSimple", 0)
        checkpointLoader == extractModels(workflowData, "CheckpointLoader", 0)
        loadCheckpoint == extractModels(workflowData, "LoadCheckpoint", 0)
        checkpoints == mergeArrays(<<checkpointSimple, checkpointLoader, loadCheckpoint>>)
        loraLoader == extractModels(workflowData, "LoraLoader", 0)
        loraModelOnly == extractModels(workflowData, "LoraLoaderModelOnly", 0)
        loras == mergeArrays(<<loraLoader, loraModelOnly>>)
        upscale_models == extractModels(workflowData, "UpscaleModelLoader", 0)
        controlnet == extractModels(workflowData, "ControlNetLoader", 0)
        clipLoader == extractModels(workflowData, "CLIPLoader", 0)
        dualClipLoader == extractModels(workflowData, "DualCLIPLoader", 0)
        clip == mergeArrays(<<clipLoader, dualClipLoader>>)
        clip_vision == extractModels(workflowData, "CLIPVisionLoader", 0)
        text_encoders ==
            extractModelsFromProperties(workflowData, "DualCLIPLoader", "text_encoders")
        unetLoader == extractModels(workflowData, "UnetLoader", 0)
        unetLoaderCaps == extractModels(workflowData, "UNETLoader", 0)
        ggufLoader == extractModels(workflowData, "GGUFLoader", 0)
        diffusionLoader == extractModels(workflowData, "DiffusionModelLoader", 0)
        diffusion_models ==
            mergeArrays(<<unetLoader, unetLoaderCaps, ggufLoader, diffusionLoader>>)
        embedding == extractModels(workflowData, "EmbeddingLoader", 0)
        style_models == extractModels(workflowData, "StyleModelLoader", 0)
        hypernetworks == extractModels(workflowData, "HypernetworkLoader", 0)
        gligen == extractModels(workflowData, "GLIGENLoader", 0)
        models ==
            [checkpoints |-> checkpoints, vae |-> vae, loras |-> loras,
             upscale_models |-> upscale_models, controlnet |-> controlnet,
             clip |-> clip, clip_vision |-> clip_vision,
             text_encoders |-> text_encoders, diffusion_models |-> diffusion_models,
             embedding |-> embedding, style_models |-> style_models,
             hypernetworks |-> hypernetworks, gligen |-> gligen]
    IN  [models |-> models, custom_nodes |-> customNodes]

-----------------------------------------------------------------------------
(* The workflows explored                                                  *)

\* "a", "b", "c", "1", "9", "abc" as code units.
sA == <<97>>
s1 == <<49>>
sB == <<98>>
sC == <<99>>
s9 == <<57>>
sAbc == <<97, 98, 99>>

\* The node types scanWorkflow asks for, and one it does not.
LoaderTypes ==
    {"VAELoader", "CheckpointLoaderSimple", "CheckpointLoader", "LoadCheckpoint",
     "LoraLoader", "LoraLoaderModelOnly", "UpscaleModelLoader", "ControlNetLoader",
     "CLIPLoader", "DualCLIPLoader", "CLIPVisionLoader", "UnetLoader", "UNETLoader",
     "GGUFLoader", "DiffusionModelLoader", "EmbeddingLoader", "StyleModelLoader",
     "HypernetworkLoader", "GLIGENLoader"}
OtherType == "KSampler"

\* widgets_values arrays: every kind of scalar at index 0, no index 0, and an
\* array whose index 1 differs from its index 0.
WidgetScalars ==
    {StrV(<<>>), StrV(sA), StrV(sB), StrV(s9), NumV(0), NumV(1), NumV(10),
     BoolV(FALSE), BoolV(TRUE), Null}
WidgetArrays ==
    {Arr(<<x>>) : x \in WidgetScalars} \cup {Arr(<<>>), Absent, Arr(<<StrV(sB), StrV(sA)>>)}

\* Nodes that carry a positional argument and no properties.
WidgetNodes ==
    {Node(OStr(t), Arr(<<StrV(sA)>>), NoProperties) : t \in LoaderTypes \cup {OtherType}}
    \cup {Node(OUndef, Arr(<<StrV(sA)>>), NoProperties)}
    \cup {Node(OStr("CheckpointLoaderSimple"), w, NoProperties) : w \in WidgetArrays}
    \cup {Node(OStr("CheckpointLoader"), Arr(<<x>>), NoProperties) :
              x \in {StrV(sB), StrV(s9), NumV(10)}}

\* properties.models arrays.
ModelEntries ==
    {Entry(OStr(d), n) : d \in {"vae", "text_encoders"},
                         n \in {Undef, StrV(<<>>), StrV(sA), StrV(sB), NumV(1), StrV(s1)}}
    \cup {Entry(OUndef, StrV(sA))}
ModelArrays ==
    {Absent, Arr(<<>>)} \cup {Arr(<<e>>) : e \in ModelEntries}
    \cup {Arr(<<Entry(OStr(d), StrV(sB)), Entry(OStr(d), StrV(sA))>>) :
              d \in {"vae", "text_encoders"}}

\* Nodes that carry properties.models: of the two types asked for, of another
\* type, and with a positional argument as well.
PropertyNodes ==
    {Node(OStr("VAELoader"), Absent, Properties(OUndef, OUndef, m)) : m \in ModelArrays}
    \cup {Node(OStr("DualCLIPLoader"), Absent, Properties(OUndef, OUndef, m)) :
              m \in {x \in ModelArrays :
                         \A i \in 1..Len(x.items) :
                             \/ x.items[i].directory = OStr("text_encoders")
                             \/ x.items[i].name = StrV(sA)}}
    \cup {Node(OStr("CLIPLoader"), Absent,
               Properties(OUndef, OUndef, Arr(<<Entry(OStr(d), StrV(sA))>>))) :
              d \in {"vae", "text_encoders"}}
    \cup {Node(OStr("VAELoader"), Arr(<<x>>),
               Properties(OUndef, OUndef, Arr(<<Entry(OStr("vae"), StrV(sB))>>))) :
              x \in {StrV(sA), StrV(sC)}}

\* Nodes that carry an origin package.
PackageNodes ==
    {Node(OStr(OtherType), Absent, Properties(c, v, Absent)) :
         c \in {OUndef, OStr(""), OStr("comfy-core"), OStr("pack-x"), OStr("pack-y")},
         v \in {OUndef, OStr(""), OStr("1.0"), OStr("2.0")}}
    \cup {Node(OStr(OtherType), Absent, NoProperties),
          Node(OStr(OtherType), Absent, NullProperties)}

\* Elements that are not node-shaped, fields of the wrong type, and two
\* well-formed nodes next to them.
MalformedNodes ==
    {NullNode, NumberNode,
     Node(OStr("CheckpointLoaderSimple"), Arr(<<StrV(sA)>>), NoProperties),
     Node(OStr(OtherType), Absent, Properties(OStr("pack-x"), OStr("1.0"), Absent)),
     Node(OStr("CheckpointLoaderSimple"), NotArr(StrV(sAbc)), NoProperties),
     Node(OStr("CheckpointLoaderSimple"), NotArr(NumV(1)), NoProperties),
     Node(OStr("CheckpointLoaderSimple"), PlainObject, NoProperties),
     Node(OStr("VAELoader"), Absent, Properties(OUndef, OUndef, NotArr(StrV(sAbc)))),
     Node(OStr("VAELoader"), Absent, Properties(OUndef, OUndef, NotArr(NumV(0)))),
     Node(OStr("VAELoader"), Absent, Properties(OUndef, OUndef, PlainObject)),
     Node(OStr("VAELoader"), Absent, Properties(OUndef, OUndef, Arr(<<NullEntry>>))),
     Node(OStr("VAELoader"), Absent,
          Properties(OUndef, OUndef, Arr(<<NumberEntry, Entry(OStr("vae"), StrV(sA))>>))),
     Node(OStr(OtherType), Absent, Properties(OUndef, OUndef, NotArr(StrV(sAbc))))}

\* A nodes field that is absent or no array.
NonArrayNodes ==
    {Absent, NotArr(Null), NotArr(StrV(sAbc)), NotArr(StrV(<<>>)), NotArr(NumV(1)),
     NotArr(NumV(0)), NotArr(BoolV(TRUE)), NotArr(BoolV(FALSE)), PlainObject}

ArraysUpTo(S, n) == UNION {[1..m -> S] : m \in 0..n}

Workflows ==
    {Workflow(Arr(items)) :
         items \in ArraysUpTo(WidgetNodes, MaxNodes) \cup ArraysUpTo(PropertyNodes, MaxNodes)
                   \cup ArraysUpTo(PackageNodes, MaxNodes)
                   \cup ArraysUpTo(MalformedNodes, MaxNodes)}
    \cup {Workflow(n) : n \in NonArrayNodes}

NoModels == [c \in Categories |-> <<>>]
NoResult == [models |-> NoModels, custom_nodes |-> <<>>]

\* No call before this one.
NoGraph == [none |-> TRUE]

-----------------------------------------------------------------------------
(* The state around the scanner before anything is shown or sent           *)

\* useState<AvailabilityStatus | null>(null), and an availability mapping.
NoAvailability == [k |-> "null", customNodes |-> <<>>, models |-> <<>>]
Availability(customNodes, models) ==
    [k |-> "obj", customNodes |-> customNodes, models |-> models]

\* The scanResult field of a request body: the manifest, or nothing.
Received(scanResult) ==
    [k |-> "obj", models |-> scanResult.models, custom_nodes |-> scanResult.custom_nodes]
NoScanResult == [k |-> "null", models |-> NoModels, custom_nodes |-> <<>>]

\* The body of a POST to /api/upload and how far the route is with it.
NoRequest ==
    [status |-> "none", outputName |-> <<>>, scanResult |-> NoScanResult,
     requiredModels |-> Absent]

\* A scan result JSON file (a key whose value is undefined is not written:
\* required_models = Absent), and no file.
File(models, custom_nodes, required_models) ==
    [k |-> "file", models |-> models, custom_nodes |-> custom_nodes,
     required_models |-> required_models]
NoFile == [k |-> "none"]

\* The objects under workflows/{outputName}/.
NoStored == [workflow |-> NoGraph, scanResult |-> NoFile]

NoResponse == [status |-> "none", availability |-> NoAvailability]

Unmounted ==
    /\ requiredModels = <<>>
    /\ availability = NoAvailability
    /\ check = "idle"
    /\ outputName = <<>>
    /\ isUploading = FALSE

NothingUploaded ==
    /\ request = NoRequest
    /\ stored = NoStored
    /\ downloaded = NoFile
    /\ markedUpload = <<>>
    /\ markedDownload = <<>>

RouteIdle ==
    /\ lookups = <<>>
    /\ routeAvailability = NoAvailability
    /\ response = NoResponse

\* No request at /api/upload under way, no stream, no DownloadLogs, no script.
NoStream == [pc |-> "none"]
NoViewer == [pc |-> "none"]
NoScript == [pc |-> "none"]

ProvisionIdle ==
    /\ uploads = <<>>
    /\ objects = {}
    /\ stream = NoStream
    /\ viewer = NoViewer
    /\ script = NoScript

-----------------------------------------------------------------------------
(* The call                                                                *)

Init ==
    /\ data \in Workflows
    /\ pc = "idle"
    /\ result = NoResult
    /\ earlier = NoGraph
    /\ Unmounted /\ NothingUploaded /\ RouteIdle /\ ProvisionIdle /\ bucket = {}

\* ScanWorkflow answering from a cache filled by the first call.
ScanWorkflow_cached ==
    /\ pc = "idle"
    /\ LET cached == IF earlier = NoGraph THEN data ELSE earlier
       IN  IF scanWorkflowThrows(cached)
           THEN pc' = "threw" /\ result' = result
           ELSE pc' = "returned" /\ result' = scanWorkflow(cached)
    /\ UNCHANGED <<data, earlier, componentVars, uploadVars, routeVars>>
    /\ UNCHANGED provisionVars

\* const result = scanWorkflow(data): the call returns a manifest, or a
\* TypeError leaves it without one.
ScanWorkflow ==
    /\ pc = "idle"
    /\ IF scanWorkflowThrows(data)
       THEN pc' = "threw" /\ result' = result
       ELSE pc' = "returned" /\ result' = scanWorkflow(data)
    /\ UNCHANGED <<data, earlier, componentVars, uploadVars, routeVars>>
    /\ UNCHANGED provisionVars

Next == ScanWorkflow

Spec == Init /\ [][Next]_vars

-----------------------------------------------------------------------------
(* Repeated calls: the page scans every file that is dropped (page.tsx)    *)

\* The graphs dropped one after the other: no node, or one node.
CallGraphs ==
    {Workflow(Arr(items)) :
         items \in ArraysUpTo(WidgetNodes \cup PackageNodes \cup {NullNode}, 1)}
    \cup {Workflow(Absent)}

InitCalls ==
    /\ data \in CallGraphs
    /\ pc = "idle"
    /\ result = NoResult
    /\ earlier = NoGraph
    /\ Unmounted /\ NothingUploaded /\ RouteIdle /\ ProvisionIdle /\ bucket = {}

\* The next file: after "Scan Another Workflow" (handleReset) or after a scan
\* that threw, the dropzone hands another graph to handleFileProcessed.
\* earlier remembers the graph of the call before (a history variable).
NextFile ==
    /\ pc \in {"returned", "threw"}
    /\ data' \in CallGraphs
    /\ earlier' = data
    /\ pc' = "idle"
    /\ result' = NoResult
    /\ UNCHANGED <<componentVars, uploadVars, routeVars>>
    /\ UNCHANGED provisionVars

NextCalls == ScanWorkflow \/ NextFile

SpecCalls == InitCalls /\ [][NextCalls]_vars

-----------------------------------------------------------------------------
(* Strings the component and the routes build and take apart               *)

\* The code units of the category names and of the folder name "embeddings".
Codes(str) ==
    CASE str = "checkpoints" -> <<99, 104, 101, 99, 107, 112, 111, 105, 110, 116, 115>>
      [] str = "vae" -> <<118, 97, 101>>
      [] str = "loras" -> <<108, 111, 114, 97, 115>>
      [] str = "upscale_models" -> <<117, 112, 115, 99, 97, 108, 101,
                                     95, 109, 111, 100, 101, 108, 115>>
      [] str = "controlnet" -> <<99, 111, 110, 116, 114, 111, 108, 110, 101, 116>>
      [] str = "clip" -> <<99, 108, 105, 112>>
      [] str = "clip_vision" -> <<99, 108, 105, 112, 95, 118, 105, 115, 105, 111, 110>>
      [] str = "text_encoders" -> <<116, 101, 120, 116, 95, 101,
                                    110, 99, 111, 100, 101, 114, 115>>
      [] str = "diffusion_models" -> <<100, 105, 102, 102, 117, 115, 105, 111,
                                       110, 95, 109, 111, 100, 101, 108, 115>>
      [] str = "embedding" -> <<101, 109, 98, 101, 100, 100, 105, 110, 103>>
      [] str = "style_models" -> <<115, 116, 121, 108, 101, 95,
                                   109, 111, 100, 101, 108, 115>>
      [] str = "hypernetworks" -> <<104, 121, 112, 101, 114, 110,
                                    101, 116, 119, 111, 114, 107, 115>>
      [] str = "gligen" -> <<103, 108, 105, 103, 101, 110>>
      [] str = "embeddings" -> <<101, 109, 98, 101, 100, 100, 105, 110, 103, 115>>

RECURSIVE Split(_, _)
\* String.prototype.split(separator), the separator one code unit: the pieces
\* between its occurrences, all of them.
Split(str, separator) ==
    IF \A i \in 1..Len(str) : str[i] # separator THEN <<str>>
    ELSE LET first == CHOOSE i \in 1..Len(str) :
                          /\ str[i] = separator
                          /\ \A j \in 1..(i - 1) : str[j] # separator
         IN  <<SubSeq(str, 1, first - 1)>>
                 \o Split(SubSeq(str, first + 1, Len(str)), separator)

RECURSIVE Trim(_)
\* String.prototype.trim(), of spaces.
Trim(str) ==
    IF str # <<>> /\ Head(str) = 32 THEN Trim(Tail(str))
    ELSE IF str # <<>> /\ Last(str) = 32 THEN Trim(Front(str))
    ELSE str

\* The keys of scanResult.models in the order Object.entries gives them, the
\* order of the literal of scanWorkflow.
CategoryOrder ==
    <<"checkpoints", "vae", "loras", "upscale_models", "controlnet", "clip",
      "clip_vision", "text_encoders", "diffusion_models", "embedding",
      "style_models", "hypernetworks", "gligen">>

\* `${category}:${model}`
ModelPath(category, model) == Codes(category) \o <<58>> \o String(model)

-----------------------------------------------------------------------------
(* The workflows shown, checked and uploaded                               *)

\* "a:b" and "w" as code units.
sAColonB == <<97, 58, 98>>
sW == <<119>>

LoaderNode(type, value) == Node(OStr(type), Arr(<<value>>), NoProperties)

\* No model; one; one whose name holds a colon; both; one name in two
\* categories; a name that is a number; an embedding next to a custom node.
AppWorkflows ==
    {Workflow(Absent),
     Workflow(Arr(<<LoaderNode("CheckpointLoaderSimple", StrV(sA))>>)),
     Workflow(Arr(<<LoaderNode("CheckpointLoaderSimple", StrV(sAColonB))>>)),
     Workflow(Arr(<<LoaderNode("CheckpointLoaderSimple", StrV(sA)),
                    LoaderNode("CheckpointLoaderSimple", StrV(sAColonB))>>)),
     Workflow(Arr(<<LoaderNode("CheckpointLoaderSimple", StrV(sA)),
                    LoaderNode("VAELoader", StrV(sA))>>)),
     Workflow(Arr(<<Node(OStr("VAELoader"), Absent,
                         Properties(OUndef, OUndef,
                                    Arr(<<Entry(OStr("vae"), NumV(1))>>)))>>)),
     Workflow(Arr(<<LoaderNode("EmbeddingLoader", StrV(sA)),
                    Node(OStr(OtherType), Absent,
                         Properties(OStr("pack-x"), OStr("1.0"), Absent))>>)),
     Workflow(Arr(<<Node(OStr(OtherType), Absent,
                         Properties(OStr("pack-x"), OUndef, Absent)),
                    Node(OStr(OtherType), Absent,
                         Properties(OStr("pack-y"), OStr("2.0"), Absent))>>))}

-----------------------------------------------------------------------------
(* /api/upload (app/api/upload/route.ts)                                   *)

\* Lines 20-25: `!outputName || !scanResult || ...`; the workflow and its file
\* name are always sent.
MissingRequiredFields(body) == body.outputName = <<>> \/ body.scanResult.k # "obj"

\* UpdatedScanResult without the default `|| []`.
UpdatedScanResult_noDefault(scanResult, required) ==
    File(scanResult.models, scanResult.custom_nodes, required)

\* Lines 28-31 and JSON.stringify of line 68:
\* {...scanResult, required_models: requiredModels || []}
UpdatedScanResult(scanResult, required) ==
    File(scanResult.models, scanResult.custom_nodes,
         IF Truthy(required) THEN required ELSE Arr(<<>>))

\* What the bucket can do to the route: the folder is listed as existing; the
\* first or the second PutObject fails; both succeed (a failing list is
\* caught, and the route goes on as if the folder did not exist).
StorageOutcomes == {"exists", "workflowFails", "scanResultFails", "stored"}

\* POST: the route takes the request in flight to its response.
PostUpload ==
    /\ request.status = "sent"
    /\ IF MissingRequiredFields(request)
       THEN request' = [request EXCEPT !.status = "400"] /\ stored' = stored
       ELSE \E outcome \in StorageOutcomes :
                CASE outcome = "exists" ->
                         request' = [request EXCEPT !.status = "409"] /\ stored' = stored
                  [] outcome = "workflowFails" ->
                         request' = [request EXCEPT !.status = "500"] /\ stored' = stored
                  [] outcome = "scanResultFails" ->
                         /\ request' = [request EXCEPT !.status = "500"]
                         /\ stored' = [stored EXCEPT !.workflow = data]
                  [] OTHER ->
                         /\ request' = [request EXCEPT !.status = "200"]
                         /\ stored' =
                                [workflow |-> data,
                                 scanResult |->
                                     UpdatedScanResult(request.scanResult,
                                                       request.requiredModels)]
    /\ UNCHANGED <<data, pc, result, earlier, componentVars, routeVars>>
    /\ UNCHANGED <<downloaded, markedUpload, markedDownload>>
    /\ UNCHANGED provisionVars

\* The bodies a client posts for the manifest it holds: an output name or
\* none, the manifest or none, and requiredModels absent, null or an array.
UploadBodies ==
    {[status |-> "sent", outputName |-> o, scanResult |-> r, requiredModels |-> m] :
         o \in {<<>>, sW},
         r \in {Received(result), NoScanResult},
         m \in {Absent, NotArr(Null), Arr(<<>>), Arr(<<sA>>), Arr(<<sA, sB>>)}}

InitUpload ==
    /\ data \in AppWorkflows
    /\ pc = "idle"
    /\ result = NoResult
    /\ earlier = NoGraph
    /\ Unmounted /\ NothingUploaded /\ RouteIdle /\ ProvisionIdle /\ bucket = {}

\* A client sends the scan result to the route.
SendUpload ==
    /\ pc = "returned"
    /\ request.status = "none"
    /\ request' \in UploadBodies
    /\ UNCHANGED <<data, pc, result, earlier, componentVars, routeVars>>
    /\ UNCHANGED <<stored, downloaded, markedUpload, markedDownload>>
    /\ UNCHANGED provisionVars

NextUpload == ScanWorkflow \/ SendUpload \/ PostUpload

SpecUpload == InitUpload /\ [][NextUpload]_vars

-----------------------------------------------------------------------------
(* /api/check-availability (its route.ts, AVAILABILITY-FEATURE.md 1126 ff.) *)

MODEL_TYPE_MAP ==
    [checkpoints |-> "checkpoints", vae |-> "vae", loras |-> "loras",
     upscale_models |-> "upscale_models", controlnet |-> "controlnet",
     clip |-> "clip", clip_vision |-> "clip_vision",
     text_encoders |-> "text_encoders", diffusion_models |-> "diffusion_models",
     embedding |-> "embeddings", style_models |-> "style_models",
     hypernetworks |-> "hypernetworks", gligen |-> "gligen"]

\* MODEL_TYPE_MAP[category] || category
ModelType(category) ==
    IF category \in DOMAIN MODEL_TYPE_MAP THEN MODEL_TYPE_MAP[category] ELSE category

\* An object key is the string s followed by the code units v.
\* `custom-nodes/${node.node}/${node.version}/.marker`
MarkerKey(node) ==
    [s |-> "custom-nodes/" \o node.node.s \o "/" \o node.version.s \o "/.marker",
     v |-> <<>>]
\* `models/${modelType}/${model}`
ModelKey(modelType, model) ==
    [s |-> "models/", v |-> Codes(modelType) \o <<47>> \o String(model)]

\* `${node.node}@${node.version}`
NodeKey(node) == node.node.s \o "@" \o node.version.s

\* obj[key] = value
Put(obj, key, value) ==
    [x \in DOMAIN obj \cup {key} |-> IF x = key THEN value ELSE obj[x]]

\* The lookups of lines 1196-1205, one per custom node, each waiting for its
\* HeadObject.
CustomNodeChecks(scanResult) ==
    [i \in 1..Len(scanResult.custom_nodes) |->
        [kind |-> "node", nodeKey |-> NodeKey(scanResult.custom_nodes[i]),
         category |-> "", model |-> <<>>,
         key |-> MarkerKey(scanResult.custom_nodes[i]), outcome |-> "pending"]]

\* The categories that get a mapping (line 1211 skips the empty ones).
CheckedCategories(scanResult) ==
    {category \in DOMAIN scanResult.models : scanResult.models[category] # <<>>}

\* The lookups of lines 1210-1227, one per truthy model of every category.
ModelChecks(scanResult) ==
    LET Checks(category) ==
            LET models == SelectSeq(scanResult.models[category], Truthy)
            IN  [i \in 1..Len(models) |->
                    [kind |-> "model", nodeKey |-> "", category |-> category,
                     model |-> String(models[i]),
                     key |-> ModelKey(ModelType(category), models[i]),
                     outcome |-> "pending"]]
    IN  Flat([j \in 1..Len(CategoryOrder) |-> Checks(CategoryOrder[j])])

\* checkFileExists: true when HeadObject succeeds; false when it fails with
\* NotFound / 404 and false when it fails with anything else.
checkFileExists(outcome) ==
    CASE outcome = "found" -> TRUE
      [] outcome = "notfound" -> FALSE
      [] OTHER -> FALSE

\* The object keys a check of the workflow's manifest asks for.
StorageKeys(workflow) ==
    LET scanResult == scanWorkflow(workflow)
        checks == CustomNodeChecks(scanResult) \o ModelChecks(scanResult)
    IN  {checks[i].key : i \in 1..Len(checks)}

InitAvailability ==
    /\ data \in AppWorkflows
    /\ pc = "idle"
    /\ result = NoResult
    /\ earlier = NoGraph
    /\ Unmounted /\ NothingUploaded /\ RouteIdle /\ ProvisionIdle
    /\ bucket \in SUBSET StorageKeys(data)

\* POST up to `await Promise.all`: without a scan result 400; else the
\* mapping is set up and every lookup is started.
PostCheckAvailability ==
    /\ pc = "returned"
    /\ response.status = "none"
    /\ \E scanResult \in {Received(result), NoScanResult} :
           IF scanResult.k # "obj"
           THEN /\ response' = [status |-> "400", availability |-> NoAvailability]
                /\ UNCHANGED <<lookups, routeAvailability>>
           ELSE /\ lookups' = CustomNodeChecks(scanResult) \o ModelChecks(scanResult)
                /\ routeAvailability' =
                       Availability(<<>>, [category \in CheckedCategories(scanResult)
                                               |-> <<>>])
                /\ response' = [status |-> "pending", availability |-> NoAvailability]
    /\ UNCHANGED <<data, pc, result, earlier, componentVars, uploadVars, bucket>>
    /\ UNCHANGED provisionVars

\* One HeadObject comes back, found or not found as the bucket has it, or with
\* another error, and the lookup writes its entry.
CheckFileExists ==
    /\ response.status = "pending"
    /\ \E i \in 1..Len(lookups) :
           /\ lookups[i].outcome = "pending"
           /\ \E outcome \in (IF lookups[i].key \in bucket THEN {"found", "error"}
                              ELSE {"notfound", "error"}) :
                  LET exists == checkFileExists(outcome)
                      category == lookups[i].category
                  IN  /\ lookups' = [lookups EXCEPT ![i].outcome = outcome]
                      /\ routeAvailability' =
                             IF lookups[i].kind = "node"
                             THEN [routeAvailability EXCEPT
                                      !.customNodes = Put(@, lookups[i].nodeKey, exists)]
                             ELSE [routeAvailability EXCEPT
                                      !.models =
                                          Put(@, category,
                                              Put(@[category], lookups[i].model, exists))]
    /\ UNCHANGED <<data, pc, result, earlier, componentVars, uploadVars, bucket, response>>
    /\ UNCHANGED provisionVars

\* Respond without `await Promise.all(..)`.
Respond_withoutAwait ==
    /\ response.status = "pending"
    /\ response' = [status |-> "200", availability |-> routeAvailability]
    /\ UNCHANGED <<data, pc, result, earlier, componentVars, uploadVars>>
    /\ UNCHANGED <<bucket, lookups, routeAvailability>>
    /\ UNCHANGED provisionVars

\* Promise.all has resolved: every lookup is back, the mapping is sent.
Respond ==
    /\ response.status = "pending"
    /\ \A i \in 1..Len(lookups) : lookups[i].outcome # "pending"
    /\ response' = [status |-> "200", availability |-> routeAvailability]
    /\ UNCHANGED <<data, pc, result, earlier, componentVars, uploadVars>>
    /\ UNCHANGED <<bucket, lookups, routeAvailability>>
    /\ UNCHANGED provisionVars

NextAvailability ==
    ScanWorkflow \/ PostCheckAvailability \/ CheckFileExists \/ Respond

SpecAvailability == InitAvailability /\ [][NextAvailability]_vars

\* The mappings a 200 response can carry for a manifest: a boolean for
\* `node@version` of every custom node and, for every category that is not
\* empty, a boolean for every model.
AvailabilityResponses(scanResult) ==
    LET nodeKeys == {NodeKey(scanResult.custom_nodes[i]) :
                         i \in 1..Len(scanResult.custom_nodes)}
        checked == CheckedCategories(scanResult)
        Names(category) ==
            {String(scanResult.models[category][i]) :
                 i \in 1..Len(scanResult.models[category])}
        Mappings == UNION {[Names(category) -> BOOLEAN] : category \in checked}
    IN  {Availability(customNodes, models) :
             customNodes \in [nodeKeys -> BOOLEAN],
             models \in {m \in [checked -> Mappings] :
                             \A category \in checked :
                                 DOMAIN m[category] = Names(category)}}

-----------------------------------------------------------------------------
(* ScanResults (components/ScanResults.tsx) and the page's upload          *)

\* The effect of lines 23-31: `${category}:${model}` of every model, in a Set.
AllModelPaths(scanResult) ==
    LET Paths(category) ==
            [i \in 1..Len(scanResult.models[category]) |->
                ModelPath(category, scanResult.models[category][i])]
    IN  ArrayFromSet(Flat([j \in 1..Len(CategoryOrder) |-> Paths(CategoryOrder[j])]))

\* toggleRequiredModel: the Set without the path, or with it added last.
toggleRequiredModel(prev, modelPath) ==
    IF modelPath \in Range(prev)
    THEN SelectSeq(prev, LAMBDA path : path # modelPath)
    ELSE Append(prev, modelPath)

\* Array.from(requiredModels).map(path => path.split(':')[1])
ModelNames(required) == [i \in 1..Len(required) |-> Split(required[i], 58)[2]]

\* obj[key] of a mapping to booleans: the boolean, or undefined.
Get(obj, key) == IF key \in DOMAIN obj THEN BoolV(obj[key]) ELSE Undef

\* availability.models[category]?.[model] === false, category and model the
\* first two pieces of a path.
ReportedMissing(avail, category, model) ==
    \E key \in DOMAIN avail.models :
        /\ Codes(key) = category
        /\ Get(avail.models[key], model) = BoolV(FALSE)

\* getMissingRequiredModels: nothing while there is no availability; else the
\* model piece of every required path whose lookup gives false.
getMissingRequiredModels(avail, required) ==
    IF avail.k = "null" THEN <<>>
    ELSE LET missing ==
                 SelectSeq(required,
                           LAMBDA modelPath :
                               LET parts == Split(modelPath, 58)
                               IN  ReportedMissing(avail, parts[1], parts[2]))
         IN  [i \in 1..Len(missing) |-> Split(missing[i], 58)[2]]

canUpload == getMissingRequiredModels(availability, requiredModels) = <<>>

\* The button's disabled={!outputName.trim() || isUploading || !canUpload}
UploadDisabled == Trim(outputName) = <<>> \/ isUploading \/ ~canUpload

\* getAvailabilityBadge showing Missing for whatever is not true.
getAvailabilityBadge_noChecking(isAvailable) ==
    IF Truthy(isAvailable) THEN "Available" ELSE "Missing"

getAvailabilityBadge(isAvailable) ==
    IF isAvailable = Undef THEN "Checking..."
    ELSE IF Truthy(isAvailable) THEN "Available" ELSE "Missing"

\* The badge of a model row: availability?.models[categoryKey]?.[model]
ModelBadge(avail, categoryKey, model) ==
    getAvailabilityBadge(
        IF avail.k = "null" \/ categoryKey \notin DOMAIN avail.models THEN Undef
        ELSE Get(avail.models[categoryKey], String(model)))

\* The badge of a custom node row: availability?.customNodes[nodeKey]
NodeBadge(avail, node) ==
    getAvailabilityBadge(
        IF avail.k = "null" THEN Undef
        ELSE Get(avail.customNodes, node.node.s \o "@" \o node.version.s))

\* What is typed as output name: nothing, a space, " w".
OutputNames == {<<>>, <<32>>, <<32>> \o sW}

InitApp ==
    /\ data \in AppWorkflows
    /\ pc = "idle"
    /\ result = NoResult
    /\ earlier = NoGraph
    /\ Unmounted /\ NothingUploaded /\ RouteIdle /\ ProvisionIdle /\ bucket = {}

\* The component is rendered for the scan result and its two effects run:
\* every model is required, and checkAvailability waits for its fetch.
Mount ==
    /\ pc = "returned"
    /\ pc' = "mounted"
    /\ requiredModels' = AllModelPaths(result)
    /\ check' = "pending"
    /\ UNCHANGED <<data, result, earlier, availability, outputName, isUploading>>
    /\ UNCHANGED <<uploadVars, routeVars>>
    /\ UNCHANGED provisionVars

\* checkAvailability after its await: a 200 response sets availability; a
\* response that is not ok, or a fetch that throws, sets nothing.
CheckAvailabilityReturns ==
    /\ pc = "mounted"
    /\ check = "pending"
    /\ \E outcome \in {"ok", "notOk", "throws"} :
           IF outcome = "ok"
           THEN /\ availability' \in AvailabilityResponses(result)
                /\ check' = "ok"
           ELSE /\ availability' = availability
                /\ check' = IF outcome = "notOk" THEN "failed" ELSE "threw"
    /\ UNCHANGED <<data, pc, result, earlier, requiredModels, outputName, isUploading>>
    /\ UNCHANGED <<uploadVars, routeVars>>
    /\ UNCHANGED provisionVars

\* A checkbox of a model row is clicked.
ToggleRequiredModel ==
    /\ pc = "mounted"
    /\ \E category \in Categories :
           \E i \in 1..Len(result.models[category]) :
               requiredModels' =
                   toggleRequiredModel(requiredModels,
                                       ModelPath(category, result.models[category][i]))
    /\ UNCHANGED <<data, pc, result, earlier, availability, check, outputName, isUploading>>
    /\ UNCHANGED <<uploadVars, routeVars>>
    /\ UNCHANGED provisionVars

\* The output name is typed (the field is disabled while uploading).
SetOutputName ==
    /\ pc = "mounted"
    /\ ~isUploading
    /\ outputName' \in OutputNames
    /\ UNCHANGED <<data, pc, result, earlier, requiredModels, availability, check, isUploading>>
    /\ UNCHANGED <<uploadVars, routeVars>>
    /\ UNCHANGED provisionVars

\* The upload button, when it is not disabled: handleUpload of the component
\* calls onUpload, handleUpload of the page posts to /api/upload.
HandleUpload ==
    /\ pc = "mounted"
    /\ ~UploadDisabled
    /\ Trim(outputName) # <<>>
    /\ isUploading' = TRUE
    /\ request' =
           [status |-> "sent", outputName |-> Trim(outputName),
            scanResult |-> Received(result),
            requiredModels |-> Arr(ModelNames(requiredModels))]
    /\ markedUpload' = requiredModels
    /\ UNCHANGED <<data, pc, result, earlier, requiredModels, availability, check, outputName>>
    /\ UNCHANGED <<stored, downloaded, markedDownload, routeVars>>
    /\ UNCHANGED provisionVars

\* handleUpload of the page after its await: the route has answered, or the
\* fetch threw before the request got there.  After a 200 the page shows the
\* download logs in place of the component.
HandleUploadResponse ==
    /\ pc = "mounted"
    /\ isUploading
    /\ \/ /\ request.status \in {"200", "400", "409", "500"}
          /\ request' = request
          /\ pc' = IF request.status = "200" THEN "uploaded" ELSE pc
       \/ /\ request.status = "sent"
          /\ request' = [request EXCEPT !.status = "unreachable"]
          /\ pc' = pc
    /\ isUploading' = FALSE
    /\ UNCHANGED <<data, result, earlier, requiredModels, availability, check, outputName>>
    /\ UNCHANGED <<stored, downloaded, markedUpload, markedDownload, routeVars>>
    /\ UNCHANGED provisionVars

\* "Download Scan Result JSON": {...scanResult, required_models: modelNames}
Download ==
    /\ pc = "mounted"
    /\ downloaded' =
           File(result.models, result.custom_nodes, Arr(ModelNames(requiredModels)))
    /\ markedDownload' = requiredModels
    /\ UNCHANGED <<data, pc, result, earlier, componentVars, routeVars>>
    /\ UNCHANGED <<request, stored, markedUpload>>
    /\ UNCHANGED provisionVars

NextApp ==
    \/ ScanWorkflow
    \/ Mount
    \/ CheckAvailabilityReturns
    \/ ToggleRequiredModel
    \/ SetOutputName
    \/ HandleUpload
    \/ PostUpload
    \/ HandleUploadResponse
    \/ Download

SpecApp == InitApp /\ [][NextApp]_vars

-----------------------------------------------------------------------------
(* /api/upload, await by await, for requests that run side by side         *)

\* The requests explored.
Requests == 1..2

\* The name every workflow file is given here.
sFile == "a.json"

NoUpload ==
    [pc |-> "none", status |-> "none", outputName |-> <<>>,
     scanResult |-> NoScanResult, workflowData |-> FALSE, workflowFileName |-> "",
     existed |-> FALSE, operations |-> 0, wrote |-> {}, replaced |-> {}]

\* Line 20, the four fields: !outputName || !scanResult || !workflowData ||
\* !workflowFileName
MissingUploadFields(body) ==
    \/ MissingRequiredFields(body)
    \/ ~body.workflowData
    \/ body.workflowFileName = ""

\* The objects whose key starts with `workflows/${outputName}/`.
Folder(name) == {o \in objects : o.folder = name}

\* PutObject: the object under the key is the one of this request.
PutObject(r, file) ==
    {o \in objects : ~(o.folder = uploads[r].outputName /\ o.file = file)}
        \cup {[folder |-> uploads[r].outputName, file |-> file, writer |-> r]}

\* The writers of the object the PutObject replaces.
Replaced(r, file) ==
    {o.writer : o \in {o \in objects : o.folder = uploads[r].outputName /\ o.file = file}}

\* The bodies posted: each of the four fields present or not, two names.
RouteBodies ==
    {[outputName |-> o, scanResult |-> sr, workflowData |-> wd, workflowFileName |-> fn] :
         o \in {<<>>, sW, sA},
         sr \in {Received(NoResult), NoScanResult},
         wd \in BOOLEAN,
         fn \in {"", sFile}}

InitRoute ==
    /\ data = Workflow(Absent)
    /\ pc = "idle"
    /\ result = NoResult
    /\ earlier = NoGraph
    /\ Unmounted /\ NothingUploaded /\ RouteIdle /\ bucket = {}
    /\ uploads = [r \in Requests |-> NoUpload]
    /\ objects \in SUBSET {[folder |-> sW, file |-> sFile, writer |-> 0]}
    /\ stream = NoStream
    /\ viewer = NoViewer
    /\ script = NoScript

\* Lines 17-31: the body is read; 400 when a field is missing.
Post(r) ==
    /\ uploads[r].pc = "none"
    /\ \E body \in RouteBodies :
           uploads' =
               [uploads EXCEPT ![r] =
                   [NoUpload EXCEPT
                       !.outputName = body.outputName,
                       !.scanResult = body.scanResult,
                       !.workflowData = body.workflowData,
                       !.workflowFileName = body.workflowFileName,
                       !.existed = Folder(body.outputName) # {},
                       !.pc = IF MissingUploadFields(body) THEN "done" ELSE "list",
                       !.status = IF MissingUploadFields(body) THEN "400" ELSE "none"]]
    /\ UNCHANGED <<data, pc, result, earlier, componentVars, uploadVars, routeVars>>
    /\ UNCHANGED <<objects, stream, viewer, script>>

\* Lines 33-50: ListObjectsV2 with MaxKeys 1; 409 when it returns an object;
\* when it throws, the error is logged and the route goes on.
ListObjects(r) ==
    /\ uploads[r].pc = "list"
    /\ \E outcome \in {"listed", "throws"} :
           uploads' =
               [uploads EXCEPT
                   ![r].operations = @ + 1,
                   ![r].pc = IF outcome = "listed" /\ Folder(uploads[r].outputName) # {}
                             THEN "done" ELSE "putWorkflow",
                   ![r].status = IF outcome = "listed" /\ Folder(uploads[r].outputName) # {}
                                 THEN "409" ELSE "none"]
    /\ UNCHANGED <<data, pc, result, earlier, componentVars, uploadVars, routeVars>>
    /\ UNCHANGED <<objects, stream, viewer, script>>

\* Lines 52-61: PutObject of the workflow; a throw goes to the outer catch, 500.
PutWorkflow(r) ==
    /\ uploads[r].pc = "putWorkflow"
    /\ \/ /\ objects' = PutObject(r, uploads[r].workflowFileName)
          /\ uploads' =
                 [uploads EXCEPT
                     ![r].operations = @ + 1,
                     ![r].wrote = @ \cup {uploads[r].workflowFileName},
                     ![r].replaced = @ \cup Replaced(r, uploads[r].workflowFileName),
                     ![r].pc = "putScanResult"]
       \/ /\ objects' = objects
          /\ uploads' =
                 [uploads EXCEPT
                     ![r].operations = @ + 1, ![r].pc = "done", ![r].status = "500"]
    /\ UNCHANGED <<data, pc, result, earlier, componentVars, uploadVars, routeVars>>
    /\ UNCHANGED <<stream, viewer, script>>

\* Lines 63-86: PutObject of wf-scan-result.json, then the 200 response; a throw
\* goes to the outer catch, 500.
PutScanResult(r) ==
    /\ uploads[r].pc = "putScanResult"
    /\ \/ /\ objects' = PutObject(r, "wf-scan-result.json")
          /\ uploads' =
                 [uploads EXCEPT
                     ![r].operations = @ + 1,
                     ![r].wrote = @ \cup {"wf-scan-result.json"},
                     ![r].replaced = @ \cup Replaced(r, "wf-scan-result.json"),
                     ![r].pc = "done", ![r].status = "200"]
       \/ /\ objects' = objects
          /\ uploads' =
                 [uploads EXCEPT
                     ![r].operations = @ + 1, ![r].pc = "done", ![r].status = "500"]
    /\ UNCHANGED <<data, pc, result, earlier, componentVars, uploadVars, routeVars>>
    /\ UNCHANGED <<stream, viewer, script>>

NextRoute ==
    \E r \in Requests : Post(r) \/ ListObjects(r) \/ PutWorkflow(r) \/ PutScanResult(r)

SpecRoute == InitRoute /\ [][NextRoute]_vars

-----------------------------------------------------------------------------
(* wf-resources-downloader.sh (the script /api/run-downloader spawns)      *)

\* MODEL_CATEGORIES of Step 5, as the script lists them.
MODEL_CATEGORIES ==
    <<"checkpoints", "clip", "clip_vision", "controlnet", "diffusion_models",
      "embeddings", "loras", "text_encoders", "unet", "upscale_models", "vae",
      "vae_approx", "style_models">>

\* jq -r ".[\"$CATEGORY\"] // [] | .[]" of .models, read line by line, the
\* empty lines skipped: the names Step 5 checks under the category.
CategoryModels(manifest, category) ==
    IF category \in DOMAIN manifest.models
    THEN LET names == [i \in 1..Len(manifest.models[category]) |->
                          String(manifest.models[category][i])]
         IN  SelectSeq(names, LAMBDA name : name # <<>>)
    ELSE <<>>

\* The checks of Step 5 in the order of its two loops.
Step5Checks(manifest) ==
    LET Checks(category) ==
            LET names == CategoryModels(manifest, category)
            IN  [i \in 1..Len(names) |-> [category |-> category, name |-> names[i]]]
    IN  Flat([j \in 1..Len(MODEL_CATEGORIES) |-> Checks(MODEL_CATEGORIES[j])])

\* str starts with prefix.
StartsWith(str, prefix) ==
    Len(prefix) <= Len(str) /\ SubSeq(str, 1, Len(prefix)) = prefix

\* aws s3 ls "s3://$SCW_BUCKET_NAME/models/${CATEGORY}/${MODEL_NAME}" lists the
\* objects whose key starts with the path; grep -q "$MODEL_NAME" finds the
\* name in every line listed.
Listed(category, name) ==
    \E key \in bucket :
        key.s = "models/" /\ StartsWith(key.v, Codes(category) \o <<47>> \o name)

\* The files the script uploads under custom-nodes/{node}/{version}/.
NodeFiles(node) ==
    [s |-> "custom-nodes/" \o node.node.s \o "/" \o node.version.s \o "/", v |-> <<>>]

\* check-scaleway-folder.sh prints something for a folder that holds objects.
NodeFolderExists(node) == MarkerKey(node) \in bucket \/ NodeFiles(node) \in bucket

\* The script's counters, where it is, and (history) the nodes whose install
\* exited non-zero, the nodes counted, the models counted missing.
ScriptStart ==
    [pc |-> "step1", exitCode |-> -1, OVERWRITE |-> FALSE, i |-> 1,
     PROCESSED |-> 0, SKIPPED |-> 0, FAILED |-> 0, summary |-> FALSE,
     m |-> 1, TOTAL_MODELS |-> 0, FOUND_MODELS |-> 0, MISSING_MODELS |-> 0,
     installFailed |-> {}, counted |-> {}, missing |-> {}]

\* exit, by `exit 1` or by set -e.
Exit(code) == [script EXCEPT !.pc = "exit", !.exitCode = code]

\* The manifest the script downloads, and its custom nodes.
TEMP_SCAN_RESULT == stored.scanResult
CUSTOM_NODES_COUNT == Len(TEMP_SCAN_RESULT.custom_nodes)

InitScript ==
    /\ data \in AppWorkflows
    /\ pc = "idle"
    /\ result = NoResult
    /\ earlier = NoGraph
    /\ Unmounted /\ NothingUploaded /\ RouteIdle /\ ProvisionIdle
    /\ bucket \in SUBSET StorageKeys(data)

\* bash wf-resources-downloader.sh <name> [--overwrite], once the upload has
\* been answered.
StartScript ==
    /\ script = NoScript
    /\ request.status \in {"200", "400", "409", "500"}
    /\ \E overwrite \in BOOLEAN : script' = [ScriptStart EXCEPT !.OVERWRITE = overwrite]
    /\ UNCHANGED <<data, pc, result, earlier, componentVars, uploadVars, routeVars>>
    /\ UNCHANGED <<uploads, objects, stream, viewer>>

\* Arguments, credentials, tools, and Step 1: the manifest is downloaded and
\* validated, or the script exits 1.
Step1 ==
    /\ script.pc = "step1"
    /\ \/ TEMP_SCAN_RESULT # NoFile /\ script' = [script EXCEPT !.pc = "step2"]
       \/ script' = Exit(1)
    /\ UNCHANGED <<data, pc, result, earlier, componentVars, uploadVars, routeVars>>
    /\ UNCHANGED <<uploads, objects, stream, viewer>>

\* Step 2: the ComfyUI version, or exit 1.  Step 3 is entered only when there
\* are custom nodes.
Step2 ==
    /\ script.pc = "step2"
    /\ \/ script' = [script EXCEPT
                        !.pc = IF CUSTOM_NODES_COUNT > 0 THEN "setup" ELSE "step4"]
       \/ script' = Exit(1)
    /\ UNCHANGED <<data, pc, result, earlier, componentVars, uploadVars, routeVars>>
    /\ UNCHANGED <<uploads, objects, stream, viewer>>

\* Step 3, the environment: python3, venv, pip install, comfy install; a
\* command that fails ends the script (exit 1, or set -e).
Setup ==
    /\ script.pc = "setup"
    /\ \/ script' = [script EXCEPT !.pc = "nodes"]
       \/ script' = Exit(1)
    /\ UNCHANGED <<data, pc, result, earlier, componentVars, uploadVars, routeVars>>
    /\ UNCHANGED <<uploads, objects, stream, viewer>>

\* One turn of the loop over the custom nodes (lines 614-741).  With set -e
\* in force, the assignment INSTALL_OUTPUT=$(comfy node install ...) ends the
\* script when the install exits non-zero, as does a failing aws s3 sync.
ProcessNode ==
    /\ script.pc = "nodes"
    /\ script.i <= CUSTOM_NODES_COUNT
    /\ LET node == TEMP_SCAN_RESULT.custom_nodes[script.i]
           next == [script EXCEPT !.i = @ + 1, !.counted = @ \cup {script.i}]
       IN  \E seen \in {NodeFolderExists(node), FALSE} :
               IF seen /\ ~script.OVERWRITE
               THEN /\ script' = [next EXCEPT !.SKIPPED = @ + 1]
                    /\ bucket' = bucket
               ELSE \E archive \in IF seen THEN {"ok", "fails"} ELSE {"ok"},
                       install \in {0, 1},
                       found \in BOOLEAN,
                       upload \in {"ok", "fails"} :
                        CASE archive = "fails" ->
                                 script' = Exit(1) /\ bucket' = bucket
                          [] archive = "ok" /\ install # 0 ->
                                 /\ script' = [Exit(install) EXCEPT
                                                  !.installFailed = @ \cup {script.i}]
                                 /\ bucket' = bucket
                          [] archive = "ok" /\ install = 0 /\ ~found ->
                                 /\ script' = [next EXCEPT !.FAILED = @ + 1]
                                 /\ bucket' = bucket
                          [] archive = "ok" /\ install = 0 /\ found /\ upload = "fails" ->
                                 script' = Exit(1) /\ bucket' = bucket
                          [] OTHER ->
                                 /\ script' = [next EXCEPT !.PROCESSED = @ + 1]
                                 /\ bucket' = bucket \cup {NodeFiles(node)}
    /\ UNCHANGED <<data, pc, result, earlier, componentVars, uploadVars>>
    /\ UNCHANGED <<lookups, routeAvailability, response, uploads, objects, stream, viewer>>

\* The summary of the custom nodes, after the last turn of the loop.
Summary ==
    /\ script.pc = "nodes"
    /\ script.i > CUSTOM_NODES_COUNT
    /\ script' = [script EXCEPT !.summary = TRUE, !.pc = "step4"]
    /\ UNCHANGED <<data, pc, result, earlier, componentVars, uploadVars, routeVars>>
    /\ UNCHANGED <<uploads, objects, stream, viewer>>

\* Step 4: .comfy_version is uploaded, or not; the script goes on either way.
Step4 ==
    /\ script.pc = "step4"
    /\ script' = [script EXCEPT !.pc = "step5"]
    /\ UNCHANGED <<data, pc, result, earlier, componentVars, uploadVars, routeVars>>
    /\ UNCHANGED <<uploads, objects, stream, viewer>>

\* Step 5, one model: found when aws s3 ls runs and lists the name, missing
\* otherwise.
CheckModel ==
    /\ script.pc = "step5"
    /\ script.m <= Len(Step5Checks(TEMP_SCAN_RESULT))
    /\ LET model == Step5Checks(TEMP_SCAN_RESULT)[script.m]
       IN  \E ls \in {"ok", "fails"} :
               IF ls = "ok" /\ Listed(model.category, model.name)
               THEN script' = [script EXCEPT !.m = @ + 1, !.TOTAL_MODELS = @ + 1,
                                             !.FOUND_MODELS = @ + 1]
               ELSE script' = [script EXCEPT !.m = @ + 1, !.TOTAL_MODELS = @ + 1,
                                             !.MISSING_MODELS = @ + 1,
                                             !.missing = @ \cup {model}]
    /\ UNCHANGED <<data, pc, result, earlier, componentVars, uploadVars, routeVars>>
    /\ UNCHANGED <<uploads, objects, stream, viewer>>

\* The models summary and the end of the script.
ModelsSummary ==
    /\ script.pc = "step5"
    /\ script.m > Len(Step5Checks(TEMP_SCAN_RESULT))
    /\ script' = Exit(0)
    /\ UNCHANGED <<data, pc, result, earlier, componentVars, uploadVars, routeVars>>
    /\ UNCHANGED <<uploads, objects, stream, viewer>>

NextScript ==
    \/ ScanWorkflow
    \/ SendUpload
    \/ PostUpload
    \/ StartScript
    \/ Step1
    \/ Step2
    \/ Setup
    \/ ProcessNode
    \/ Summary
    \/ Step4
    \/ CheckModel
    \/ ModelsSummary

SpecScript == InitScript /\ [][NextScript]_vars

-----------------------------------------------------------------------------
(* /api/run-downloader (app/api/run-downloader/route.ts)                   *)

\* Most chunks of stdout and stderr a run delivers.
MaxOutput == 2

\* The exit code `close` is given: 0, 1, or null (a signal), written -1.
ExitCodes == {0, 1, -1}

Event(type, exitCode) == [type |-> type, exitCode |-> exitCode]

\* safeEnqueue without the test of isClosed.
safeEnqueue_unguarded(st, event) ==
    IF st.controller = "open"
    THEN [st EXCEPT !.queue = Append(@, event)]
    ELSE [st EXCEPT !.isClosed = TRUE,
                    !.failedAt = IF @ = -1 THEN Len(st.queue) ELSE @]

\* safeEnqueue (lines 30-39): nothing once isClosed; else controller.enqueue,
\* which throws when the stream is closed or cancelled, and then isClosed.
\* failedAt (history) is the length of the queue at the first failure.
safeEnqueue(st, event) ==
    IF st.isClosed THEN st
    ELSE IF st.controller = "open"
         THEN [st EXCEPT !.queue = Append(@, event)]
         ELSE [st EXCEPT !.isClosed = TRUE,
                         !.failedAt = IF @ = -1 THEN Len(st.queue) ELSE @]

\* start(controller) up to the spawn: the two initial log lines.
StreamStart ==
    LET st == [pc |-> "open", isClosed |-> FALSE, controller |-> "open",
               queue |-> <<>>, closeFired |-> FALSE, errorFired |-> FALSE,
               exitCode |-> -2, timers |-> 0, closedByServer |-> FALSE,
               failedAt |-> -1, output |-> 0]
    IN  safeEnqueue(safeEnqueue(st, Event("log", -2)), Event("log", -2))

InitStream ==
    /\ data = Workflow(Absent)
    /\ pc = "idle"
    /\ result = NoResult
    /\ earlier = NoGraph
    /\ Unmounted /\ NothingUploaded /\ RouteIdle /\ ProvisionIdle /\ bucket = {}

\* GET: 400 without workflowName; else the stream starts and the script is
\* spawned.
GET ==
    /\ stream = NoStream
    /\ \E workflowName \in {<<>>, sW} :
           stream' = IF workflowName = <<>> THEN [pc |-> "400"] ELSE StreamStart
    /\ UNCHANGED <<data, pc, result, earlier, componentVars, uploadVars, routeVars>>
    /\ UNCHANGED <<uploads, objects, viewer, script>>

\* childProcess.stdout.on('data') and childProcess.stderr.on('data')
Output ==
    /\ stream.pc = "open"
    /\ stream.output < MaxOutput
    /\ \E type \in {"log", "error"} :
           stream' = [safeEnqueue(stream, Event(type, -2)) EXCEPT !.output = @ + 1]
    /\ UNCHANGED <<data, pc, result, earlier, componentVars, uploadVars, routeVars>>
    /\ UNCHANGED <<uploads, objects, viewer, script>>

\* childProcess.on('close') (lines 87-116)
OnClose ==
    /\ stream.pc = "open"
    /\ ~stream.closeFired
    /\ \E code \in ExitCodes :
           LET fired == [stream EXCEPT !.closeFired = TRUE, !.exitCode = code]
               first == safeEnqueue(fired,
                                    Event(IF code = 0 THEN "success" ELSE "error", -2))
               second == safeEnqueue(first, Event("done", code))
           IN  stream' = IF stream.isClosed THEN fired
                         ELSE [second EXCEPT !.isClosed = TRUE, !.timers = @ + 1]
    /\ UNCHANGED <<data, pc, result, earlier, componentVars, uploadVars, routeVars>>
    /\ UNCHANGED <<uploads, objects, viewer, script>>

\* childProcess.on('error') (lines 119-134)
OnError ==
    /\ stream.pc = "open"
    /\ ~stream.errorFired
    /\ LET fired == [stream EXCEPT !.errorFired = TRUE]
       IN  stream' = IF stream.isClosed THEN fired
                     ELSE [safeEnqueue(fired, Event("error", -2)) EXCEPT
                              !.isClosed = TRUE, !.timers = @ + 1]
    /\ UNCHANGED <<data, pc, result, earlier, componentVars, uploadVars, routeVars>>
    /\ UNCHANGED <<uploads, objects, viewer, script>>

\* The setTimeout callback: controller.close(), which throws (ignored) on a
\* stream that is closed or cancelled.
CloseTimer ==
    /\ stream.pc = "open"
    /\ stream.timers > 0
    /\ stream' = IF stream.controller = "open"
                 THEN [stream EXCEPT !.timers = @ - 1, !.controller = "closed",
                                     !.closedByServer = TRUE]
                 ELSE [stream EXCEPT !.timers = @ - 1]
    /\ UNCHANGED <<data, pc, result, earlier, componentVars, uploadVars, routeVars>>
    /\ UNCHANGED <<uploads, objects, viewer, script>>

\* cancel(): the client has gone; the stream takes no more chunks.
Cancel ==
    /\ stream.pc = "open"
    /\ stream.controller = "open"
    /\ stream' = [stream EXCEPT !.controller = "cancelled"]
    /\ UNCHANGED <<data, pc, result, earlier, componentVars, uploadVars, routeVars>>
    /\ UNCHANGED <<uploads, objects, viewer, script>>

NextStream == GET \/ Output \/ OnClose \/ OnError \/ CloseTimer \/ Cancel

SpecStream == InitStream /\ [][NextStream]_vars

-----------------------------------------------------------------------------
(* DownloadLogs (components/DownloadLogs.tsx) under the page               *)

\* Most requests to /api/run-downloader, and most log lines, explored.
MaxRequests == 3
MaxLogs == 3

\* The component after its first render: refs and state as declared (17-22).
\* opened counts the EventSource connections, completions lists the
\* arguments onComplete was called with; rendered numbers the renders of the
\* page, each of which makes a new handleDownloadComplete, and effectFor is
\* the render whose onComplete the effect last ran with.  doneZero,
\* failedToStart, silenced and errorLogsAfterComplete are history.
Mounted ==
    [pc |-> "mounted", hasCompleted |-> FALSE, eventSource |-> "null",
     opened |-> 0, completions |-> <<>>, logs |-> 0, rendered |-> 1,
     effectFor |-> 0, doneZero |-> FALSE, failedToStart |-> FALSE,
     silenced |-> FALSE, errorLogsAfterComplete |-> 0]

\* onComplete(success): handleDownloadComplete sets uploadStatus, so the page
\* renders again.
Complete(v, success) ==
    [v EXCEPT !.completions = Append(@, success), !.rendered = @ + 1]

\* startDownload (lines 26-96): a new EventSource, or the catch.
startDownload(v, constructed) ==
    IF constructed
    THEN [v EXCEPT !.eventSource = "open", !.opened = @ + 1]
    ELSE IF ~v.hasCompleted
         THEN Complete([v EXCEPT !.hasCompleted = TRUE, !.logs = @ + 1,
                                 !.failedToStart = TRUE], FALSE)
         ELSE [v EXCEPT !.failedToStart = TRUE]

\* onmessage without the test of hasCompletedRef.
onmessage_unguarded(v, event) ==
    IF event.type = "done"
    THEN Complete([v EXCEPT !.hasCompleted = TRUE, !.eventSource = "null",
                            !.doneZero = @ \/ event.exitCode = 0],
                  event.exitCode = 0)
    ELSE [v EXCEPT !.logs = @ + 1]

\* eventSource.onmessage (lines 35-61), for an event that parses; log, error
\* and success events carry a message.
onmessage(v, event) ==
    IF event.type = "done"
    THEN IF ~v.hasCompleted
         THEN Complete([v EXCEPT !.hasCompleted = TRUE, !.eventSource = "null",
                                 !.doneZero = @ \/ event.exitCode = 0],
                       event.exitCode = 0)
         ELSE [v EXCEPT !.doneZero = @ \/ event.exitCode = 0]
    ELSE [v EXCEPT !.logs = @ + 1]

\* eventSource.onerror (lines 63-84); readyState is CONNECTING when the
\* browser is about to reconnect, CLOSED when it has given up.  A source left
\* open in CONNECTING requests the URL again.
onerror(v, readyState) ==
    IF v.hasCompleted
    THEN [v EXCEPT !.eventSource = "null", !.silenced = TRUE]
    ELSE IF v.eventSource # "null" /\ readyState = "CLOSED"
         THEN Complete([v EXCEPT !.hasCompleted = TRUE, !.logs = @ + 1,
                                 !.errorLogsAfterComplete =
                                     IF v.completions # <<>> THEN @ + 1 ELSE @,
                                 !.eventSource = "null"], FALSE)
         ELSE [v EXCEPT !.opened = @ + 1]

InitViewer ==
    /\ data = Workflow(Absent)
    /\ pc = "idle"
    /\ result = NoResult
    /\ earlier = NoGraph
    /\ Unmounted /\ NothingUploaded /\ RouteIdle /\ ProvisionIdle /\ bucket = {}

\* The page shows DownloadLogs (showDownloadLogs true) and the effect of
\* lines 24-107 runs for the first time.
ShowDownloadLogs ==
    /\ viewer = NoViewer
    /\ \E constructed \in BOOLEAN :
           viewer' = [startDownload(Mounted, constructed) EXCEPT !.effectFor = 1]
    /\ UNCHANGED <<data, pc, result, earlier, componentVars, uploadVars, routeVars>>
    /\ UNCHANGED <<uploads, objects, stream, script>>

\* A message event of the open source.
OnMessage ==
    /\ viewer.pc = "mounted"
    /\ viewer.eventSource = "open"
    /\ \E event \in {Event(type, -2) : type \in {"log", "error", "success"}}
                        \cup {Event("done", code) : code \in ExitCodes} :
           /\ event.type # "done" => viewer.logs < MaxLogs
           /\ viewer' = onmessage(viewer, event)
    /\ UNCHANGED <<data, pc, result, earlier, componentVars, uploadVars, routeVars>>
    /\ UNCHANGED <<uploads, objects, stream, script>>

\* An error event of the open source.
OnErrorEvent ==
    /\ viewer.pc = "mounted"
    /\ viewer.eventSource = "open"
    /\ viewer.opened < MaxRequests
    /\ \E readyState \in {"CONNECTING", "CLOSED"} :
           viewer' = onerror(viewer, readyState)
    /\ UNCHANGED <<data, pc, result, earlier, componentVars, uploadVars, routeVars>>
    /\ UNCHANGED <<uploads, objects, stream, script>>

\* The page has rendered again: onComplete is a new function, so the effect's
\* dependencies [workflowName, onComplete] have changed; its cleanup closes
\* the source the ref holds and the effect runs again.
Render ==
    /\ viewer.pc = "mounted"
    /\ viewer.effectFor # viewer.rendered
    /\ viewer.opened < MaxRequests
    /\ \E constructed \in BOOLEAN :
           viewer' = [startDownload([viewer EXCEPT !.eventSource = "null"], constructed)
                          EXCEPT !.effectFor = viewer.rendered]
    /\ UNCHANGED <<data, pc, result, earlier, componentVars, uploadVars, routeVars>>
    /\ UNCHANGED <<uploads, objects, stream, script>>

NextViewer == ShowDownloadLogs \/ OnMessage \/ OnErrorEvent \/ Render

SpecViewer == InitViewer /\ [][NextViewer]_vars

-----------------------------------------------------------------------------
(* Properties                                                              *)

\* The elements of the nodes array (none when nodes is no array).
Items == IF data.nodes.k = "arr" THEN data.nodes.items ELSE <<>>
Returned == pc = "returned"
CustomNodes == result.custom_nodes

\* The workflow without what is malformed in it: elements that are no objects,
\* a widgets_values or properties.models that is no array, entries of
\* properties.models that are no objects.
WellFormedNode(node) ==
    [node EXCEPT
        !.widgets_values = IF @.k = "arr" THEN @ ELSE Absent,
        !.properties.models =
            IF @.k = "arr" THEN Arr(SelectSeq(@.items, LAMBDA e : e.k = "obj"))
            ELSE Absent]
WellFormedPart(workflow) ==
    LET kept == SelectSeq(workflow.nodes.items, LAMBDA node : node.k = "obj")
    IN  Workflow(Arr([i \in 1..Len(kept) |-> WellFormedNode(kept[i])]))

\* C1: for any nodes array scanWorkflow returns and does not throw, also when
\* elements are not node-shaped, widgets_values or properties.models is no
\* array, or an entry of properties.models is null; what is malformed
\* contributes nothing and the well-formed nodes still contribute, so the
\* manifest is that of the workflow without its malformed parts.
C1_MalformedNeverAborts ==
    data.nodes.k = "arr" =>
        /\ pc # "threw"
        /\ Returned => result = scanWorkflow(WellFormedPart(data))

\* C2: a nodes field that is present and no array (a string, a number, true, a
\* plain object) is treated as zero nodes: the call returns the empty manifest
\* and does not throw.
C2_NonArrayNodesIsEmpty ==
    data.nodes.k \notin {"arr", "undef"} =>
        /\ pc # "threw"
        /\ Returned => result = NoResult

\* The places in nodes of the nodes that carry package id, in order.
NodesOfPackage(id) ==
    {i \in 1..Len(Items) : IsCustomNode(Items[i]) /\ PropertiesCnrId(Items[i]) = id}
Min(S) == CHOOSE i \in S : \A j \in S : i <= j
Max(S) == CHOOSE i \in S : \A j \in S : i >= j

\* The packages every node of which declares a version.
VersionedPackages ==
    {e.node : e \in {x \in Range(CustomNodes) :
                         \A i \in NodesOfPackage(x.node) : OTruthy(Items[i].properties.ver)}}

\* C3 as stated: when several nodes carry the same cnr_id with different
\* versions, the entry kept records the version of the first of them in nodes
\* order.
C3_FirstWins ==
    Returned =>
        \A e \in Range(CustomNodes) :
            e.node \in VersionedPackages =>
                e.version = Items[Min(NodesOfPackage(e.node))].properties.ver

\* C3, amended: when several nodes carry the same cnr_id with different
\* versions, the entry kept records the version of the last of them in nodes
\* order.
C3_LastWins ==
    Returned =>
        \A e \in Range(CustomNodes) :
            e.node \in VersionedPackages =>
                e.version = Items[Max(NodesOfPackage(e.node))].properties.ver

\* Two nodes of one package with different versions have been scanned into
\* one entry.
C3_Witness ==
    /\ Returned
    /\ Len(CustomNodes) = 1
    /\ CustomNodes[1].node \in VersionedPackages
    /\ \E i, j \in NodesOfPackage(CustomNodes[1].node) :
           i < j /\ Items[i].properties.ver # Items[j].properties.ver

\* The assembly table: the node types whose widgets_values[0] feeds a
\* category, and the node type and directory whose properties.models feed it.
PositionalTypes ==
    [c \in Categories |->
        CASE c = "checkpoints" -> {"CheckpointLoaderSimple", "CheckpointLoader", "LoadCheckpoint"}
          [] c = "vae" -> {"VAELoader"}
          [] c = "loras" -> {"LoraLoader", "LoraLoaderModelOnly"}
          [] c = "upscale_models" -> {"UpscaleModelLoader"}
          [] c = "controlnet" -> {"ControlNetLoader"}
          [] c = "clip" -> {"CLIPLoader", "DualCLIPLoader"}
          [] c = "clip_vision" -> {"CLIPVisionLoader"}
          [] c = "text_encoders" -> {}
          [] c = "diffusion_models" ->
                 {"UnetLoader", "UNETLoader", "GGUFLoader", "DiffusionModelLoader"}
          [] c = "embedding" -> {"EmbeddingLoader"}
          [] c = "style_models" -> {"StyleModelLoader"}
          [] c = "hypernetworks" -> {"HypernetworkLoader"}
          [] c = "gligen" -> {"GLIGENLoader"}]
PropertySources ==
    [c \in Categories |->
        CASE c = "vae" -> {<<"VAELoader", "vae">>}
          [] c = "text_encoders" -> {<<"DualCLIPLoader", "text_encoders">>}
          [] OTHER -> {}]
PositionalOnly == {c \in Categories : PropertySources[c] = {}}

\* The places in nodes of the objects whose type is one of T.
NodesOfTypes(T) ==
    {i \in 1..Len(Items) :
         Items[i].k = "obj" /\ Items[i].type.k = "str" /\ Items[i].type.s \in T}

IsPresent(x) == x.k \notin {"undef", "null"}
IsPresentNonEmpty(x) == IsPresent(x) /\ x # StrV(<<>>)
IsNonEmptyNonZeroTrue(x) ==
    \/ x.k = "str" /\ x.v # <<>>
    \/ x.k = "num" /\ x.v[1] # 0
    \/ x = BoolV(TRUE)

\* The test a reading of the rules puts to a value.
Passes(reading, x) ==
    CASE reading = "present" -> IsPresent(x)
      [] reading = "present, not empty" -> IsPresentNonEmpty(x)
      [] reading = "not empty, not 0, not false" -> IsNonEmptyNonZeroTrue(x)

\* The positional rule under a reading of the test of the value at
\* widgets_values[0]: a value that passes is in the category as its string,
\* and a category fed by positional arguments alone holds nothing else.
PositionalRule(reading) ==
    \A c \in Categories :
        LET contributed ==
                {StrV(String(WidgetValue(Items[i], 0))) :
                     i \in {j \in NodesOfTypes(PositionalTypes[c]) :
                                Passes(reading, WidgetValue(Items[j], 0))}}
        IN  /\ contributed \subseteq Range(result.models[c])
            /\ c \in PositionalOnly => Range(result.models[c]) \subseteq contributed

\* C4 as stated: the value at widgets_values[0] of a node whose type matches a
\* category alias contributes its string form iff it is present and not the
\* empty string (any number, any boolean, any non-empty string).
C4_PresentNonEmptyIncluded == Returned => PositionalRule("present, not empty")

\* C4, amended: the value contributes its string form iff it is a non-empty
\* string, a number other than 0, or true; an empty string, 0, false, null and
\* an absent value contribute nothing.
C4_TruthyIncluded == Returned => PositionalRule("not empty, not 0, not false")

\* A checkpoint loader with 0 and one with 10 at index 0 gave checkpoints ["10"].
C4_Witness ==
    /\ Returned
    /\ Len(Items) = 2
    /\ NodesOfTypes(PositionalTypes["checkpoints"]) = {1, 2}
    /\ WidgetValue(Items[1], 0) = NumV(0)
    /\ WidgetValue(Items[2], 0) = NumV(10)
    /\ result.models["checkpoints"] = <<StrV(<<49, 48>>)>>

IsSortedNoDup(arr) ==
    \A i, j \in 1..Len(arr) :
        i < j => arr[i] # arr[j] /\ ~StrLess(String(arr[j]), String(arr[i]))

\* C5: in every manifest returned, every category holds no element twice and is
\* in ascending order of its elements' strings, compared code unit by code unit.
C5_SortedNoDup == Returned => \A c \in Categories : IsSortedNoDup(result.models[c])

\* Two checkpoint loaders naming "9" then 10 gave checkpoints ["10", "9"].
C5_Witness ==
    /\ Returned
    /\ Len(Items) = 2
    /\ NodesOfTypes(PositionalTypes["checkpoints"]) = {1, 2}
    /\ WidgetValue(Items[1], 0) = StrV(s9)
    /\ WidgetValue(Items[2], 0) = NumV(10)
    /\ result.models["checkpoints"] = <<StrV(<<49, 48>>), StrV(s9)>>

\* The package ids on the nodes: the non-empty cnr_id strings other than the
\* core sentinel.
PackageIds ==
    {Items[i].properties.cnr_id :
         i \in {j \in 1..Len(Items) :
                    /\ Items[j].k = "obj" /\ Items[j].properties.k = "obj"
                    /\ Items[j].properties.cnr_id.k = "str"
                    /\ Items[j].properties.cnr_id.s \notin {"", "comfy-core"}}}

SingleNodeVersions ==
    {<<e.version, Items[Min(NodesOfPackage(e.node))].properties.ver>> :
         e \in {x \in Range(CustomNodes) : Cardinality(NodesOfPackage(x.node)) = 1}}

\* C7 as stated: for a package carried by one node the version is the node's
\* ver whenever ver is present, an empty string included, and "latest" only
\* when ver is absent.
C7_VerWheneverPresent ==
    Returned =>
        \A p \in SingleNodeVersions :
            IF p[2].k = "undef" THEN p[1] = OStr("latest") ELSE p[1] = p[2]

\* C7, amended: the version is the node's ver whenever ver is a non-empty
\* string, and "latest" when ver is absent or the empty string.
C7_VerOrLatest ==
    Returned =>
        \A p \in SingleNodeVersions :
            IF p[2].k = "undef" \/ p[2] = OStr("") THEN p[1] = OStr("latest")
            ELSE p[1] = p[2]

\* A single node with an empty ver gave an entry of version "latest".
C7_Witness ==
    /\ Returned
    /\ Len(Items) = 1
    /\ IsCustomNode(Items[1])
    /\ Items[1].properties.ver = OStr("")
    /\ CustomNodes = <<[node |-> Items[1].properties.cnr_id, version |-> OStr("latest")]>>

\* C8: no entry of custom-nodes is the core package, and every entry is the
\* cnr_id of a node that has properties with a cnr_id.
C8_CoreExcluded ==
    Returned =>
        \A e \in Range(CustomNodes) :
            /\ e.node # OStr("comfy-core")
            /\ \E i \in 1..Len(Items) :
                   /\ Items[i].k = "obj" /\ Items[i].properties.k = "obj"
                   /\ Items[i].properties.cnr_id.k = "str"
                   /\ Items[i].properties.cnr_id = e.node

\* A node of the core package next to a node of pack-x gave the one entry of
\* pack-x.
C8_Witness ==
    /\ Returned
    /\ Len(Items) = 2
    /\ PropertiesCnrId(Items[1]) = OStr("comfy-core")
    /\ Items[2].properties.k = "obj" /\ Items[2].properties.cnr_id = OStr("pack-x")
    /\ Len(CustomNodes) = 1

\* What the node at place i alone gives category c through the table.
Contribution(c, i) ==
    LET single == Workflow(Arr(<<Items[i]>>))
    IN  UNION {Range(extractModels(single, t, 0)) : t \in PositionalTypes[c]}
        \cup UNION {Range(extractModelsFromProperties(single, p[1], p[2])) :
                        p \in PropertySources[c]}

\* C9: every category is the sorted, deduplicated union of what its sources in
\* the assembly table give, node by node, and of nothing else: a node of
\* another type gives nothing, and only index 0 of widgets_values is read.
C9_CategoryAssembly ==
    Returned =>
        \A c \in Categories :
            /\ Range(result.models[c]) = UNION {Contribution(c, i) : i \in 1..Len(Items)}
            /\ IsSortedNoDup(result.models[c])

\* A VAELoader with "c" at index 0 and {vae, "b"} in properties.models, next to
\* a VAELoader whose entry is of directory text_encoders, gave vae ["b", "c"]
\* and no text_encoders.
C9_Witness ==
    /\ Returned
    /\ Len(Items) = 2
    /\ NodesOfTypes({"VAELoader"}) = {1, 2}
    /\ WidgetValue(Items[1], 0) = StrV(sC)
    /\ PropertiesModels(Items[1]) = Arr(<<Entry(OStr("vae"), StrV(sB))>>)
    /\ PropertiesModels(Items[2]) = Arr(<<Entry(OStr("text_encoders"), StrV(sA))>>)
    /\ result.models["vae"] = <<StrV(sB), StrV(sC)>>
    /\ result.models["text_encoders"] = <<>>

\* The property rule under a reading of the test of an entry's name: the
\* names that pass, of the entries of the category's directory on nodes of the
\* category's type, are in the category, and nothing else comes from
\* properties.models.
PropertyRule(reading) ==
    \A c \in Categories \ PositionalOnly :
        \A p \in PropertySources[c] :
            LET contributed ==
                    UNION {{PropertiesModels(Items[i]).items[j].name :
                                j \in {n \in 1..Len(PropertiesModels(Items[i]).items) :
                                           LET e == PropertiesModels(Items[i]).items[n]
                                           IN  /\ e.k = "obj"
                                               /\ e.directory = OStr(p[2])
                                               /\ Passes(reading, e.name)}} :
                               i \in NodesOfTypes({p[1]})}
                positional ==
                    UNION {Range(extractModels(data, t, 0)) : t \in PositionalTypes[c]}
            IN  /\ contributed \subseteq Range(result.models[c])
                /\ Range(result.models[c]) \subseteq contributed \cup positional

\* C10 as stated: an entry of properties.models on a node of the exact type
\* contributes its name iff its directory is the category's and its name is
\* present.
C10_NamePresent == Returned => PropertyRule("present")

\* C10, amended: an entry contributes its name iff its directory is the
\* category's and its name is present and not empty (a non-empty string, a
\* number other than 0, or true).
C10_NameNonEmpty == Returned => PropertyRule("not empty, not 0, not false")

\* Two DualCLIPLoader nodes, one with an entry of text_encoders whose name is
\* empty and one with an entry named "a", gave text_encoders ["a"].
C10_Witness ==
    /\ Returned
    /\ Len(Items) = 2
    /\ NodesOfTypes({"DualCLIPLoader"}) = {1, 2}
    /\ PropertiesModels(Items[1]) = Arr(<<Entry(OStr("text_encoders"), StrV(<<>>))>>)
    /\ PropertiesModels(Items[2]) = Arr(<<Entry(OStr("text_encoders"), StrV(sA))>>)
    /\ result.models["text_encoders"] = <<StrV(sA)>>

\* The manifest's models as the type WorkflowModels declares them: the
\* thirteen keys, every element a non-empty string.
IsStringArray(arr) ==
    \A i \in 1..Len(arr) : arr[i].k = "str" /\ arr[i].v # <<>>

\* C11: whenever scanWorkflow returns, result.models has exactly the thirteen
\* category keys, every element of every category is a non-empty string, and
\* custom-nodes is an array of {node, version} objects, for any input graph,
\* also one with names in properties.models that are no strings.
C11_OutputShape ==
    Returned =>
        /\ DOMAIN result.models = Categories
        /\ \A c \in Categories : IsStringArray(result.models[c])
        /\ \A i \in 1..Len(CustomNodes) : DOMAIN CustomNodes[i] = {"node", "version"}

\* The graphs {} and {nodes: []}.
EmptyInputs == {Workflow(Absent), Workflow(Arr(<<>>))}

\* C12: scanWorkflow({}) and scanWorkflow({nodes: []}) both return, and return
\* a manifest in which each of the thirteen categories is an empty sequence
\* and custom-nodes is empty.
C12_EmptyInput ==
    (data \in EmptyInputs /\ pc # "idle") =>
        /\ Returned
        /\ DOMAIN result.models = Categories
        /\ \A c \in Categories : result.models[c] = <<>>
        /\ CustomNodes = <<>>

\* The call on {} has returned.
C12_Witness == Returned /\ data = Workflow(Absent)

C15_RequiredModelsAddedOnUpload ==
    /\ DOMAIN result = {"models", "custom_nodes"}
    /\ stored.scanResult # NoFile =>
           /\ DOMAIN stored.scanResult =
                  {"k", "models", "custom_nodes", "required_models"}
           /\ stored.scanResult.models = request.scanResult.models
           /\ stored.scanResult.custom_nodes = request.scanResult.custom_nodes
           /\ stored.scanResult.required_models =
                  IF request.requiredModels.k = "arr" THEN request.requiredModels
                  ELSE Arr(<<>>)

\* The manifest of a workflow with a checkpoint was sent without
\* requiredModels, and the file was written.
C15_Witness ==
    /\ request.status = "200"
    /\ request.requiredModels = Absent
    /\ request.scanResult = Received(result)
    /\ result.models["checkpoints"] # <<>>
    /\ stored.scanResult # NoFile

\* The storage folder the interface names for a category, and the objects it
\* names for a custom node and for a model.
FolderOf(category) == IF category = "embedding" THEN "embeddings" ELSE category
MarkerOf(node) ==
    [s |-> "custom-nodes/" \o node.node.s \o "/" \o node.version.s \o "/.marker",
     v |-> <<>>]
ObjectOf(category, model) ==
    [s |-> "models/", v |-> Codes(FolderOf(category)) \o <<47>> \o String(model)]

\* A lookup of the object came back with an error that is no 404.
LookupFailed(key) ==
    \E i \in 1..Len(lookups) : lookups[i].key = key /\ lookups[i].outcome = "error"

\* C16: for a manifest of the extractor, a successful check-availability
\* response is sent only when every lookup is back, and holds a boolean for
\* every custom node (true iff custom-nodes/{node}/{version}/.marker exists)
\* and for every model of every category that is not empty (true iff
\* models/{folder}/{name} exists, the folder being the category, embeddings
\* for embedding); a lookup that fails, with a 404 or with anything else,
\* gives false for its resource alone and never fails the check.
C16_AvailabilityContract ==
    /\ response.status # "500"
    /\ response.status = "200" =>
           LET answer == response.availability
           IN  /\ \A i \in 1..Len(lookups) : lookups[i].outcome # "pending"
               /\ answer \in AvailabilityResponses(result)
               /\ \A i \in 1..Len(CustomNodes) :
                      LET nodeKey == CustomNodes[i].node.s \o "@" \o CustomNodes[i].version.s
                          marker == MarkerOf(CustomNodes[i])
                      IN  /\ nodeKey \in DOMAIN answer.customNodes
                          /\ answer.customNodes[nodeKey] =
                                 (marker \in bucket /\ ~LookupFailed(marker))
               /\ \A category \in Categories :
                      result.models[category] # <<>> =>
                          /\ category \in DOMAIN answer.models
                          /\ \A i \in 1..Len(result.models[category]) :
                                 LET model == result.models[category][i]
                                     object == ObjectOf(category, model)
                                 IN  /\ String(model) \in DOMAIN answer.models[category]
                                     /\ answer.models[category][String(model)] =
                                            (object \in bucket /\ ~LookupFailed(object))

\* The response for an embedding and a custom node, both in the bucket: the
\* embedding was found under embeddings/, the marker's lookup failed.
C16_Witness ==
    /\ response.status = "200"
    /\ result.models["embedding"] = <<StrV(sA)>>
    /\ Len(CustomNodes) = 1
    /\ bucket = {ObjectOf("embedding", StrV(sA)), MarkerOf(CustomNodes[1])}
    /\ LookupFailed(MarkerOf(CustomNodes[1]))
    /\ response.availability.models["embedding"][sA] = TRUE
    /\ response.availability.customNodes["pack-x@1.0"] = FALSE

\* The model rows and the custom node rows the component shows.
ModelRows == {<<category, i>> : category \in Categories, i \in 1..3} \cap
                 {row \in Categories \X (1..3) : row[2] <= Len(result.models[row[1]])}
ModelOf(row) == result.models[row[1]][row[2]]

\* The availability mapping holds no entry for the model / the custom node.
NoModelEntry(row) ==
    \/ availability.k = "null"
    \/ row[1] \notin DOMAIN availability.models
    \/ String(ModelOf(row)) \notin DOMAIN availability.models[row[1]]
NoNodeEntry(node) ==
    \/ availability.k = "null"
    \/ (node.node.s \o "@" \o node.version.s) \notin DOMAIN availability.customNodes

\* C17: a model or a custom node that has no entry in the availability
\* mapping (the check is not back, it failed, or the entry is absent) is shown
\* as "Checking...", not as Missing, and a model without entry is not counted
\* among the missing required models.
C17_AbsenceIsUnknown ==
    pc = "mounted" =>
        /\ \A row \in ModelRows :
               NoModelEntry(row) =>
                   /\ ModelBadge(availability, row[1], ModelOf(row)) = "Checking..."
                   /\ getMissingRequiredModels(
                          availability,
                          SelectSeq(requiredModels,
                                    LAMBDA path : path = ModelPath(row[1], ModelOf(row))))
                          = <<>>
        /\ \A i \in 1..Len(CustomNodes) :
               NoNodeEntry(CustomNodes[i]) =>
                   NodeBadge(availability, CustomNodes[i]) = "Checking..."

\* The check failed while a checkpoint is shown and required.
C17_Witness ==
    /\ pc = "mounted"
    /\ check = "failed"
    /\ result.models["checkpoints"] = <<StrV(sA)>>
    /\ requiredModels = <<ModelPath("checkpoints", StrV(sA))>>
    /\ NoModelEntry(<<"checkpoints", 1>>)

\* The model of the row is marked required and its entry in the availability
\* mapping is false.
RequiredAndMissing(row) ==
    /\ ModelPath(row[1], ModelOf(row)) \in Range(requiredModels)
    /\ ~NoModelEntry(row)
    /\ availability.models[row[1]][String(ModelOf(row))] = FALSE

\* C18: whenever a model marked required is reported missing by the
\* availability check, the upload button is disabled (so onUpload is not
\* invoked), whatever the model's name, a name with a colon included.
C18_MissingRequiredBlocksUpload ==
    pc = "mounted" =>
        ((\E row \in ModelRows : RequiredAndMissing(row)) => UploadDisabled)

\* C19: when the availability check threw or answered with a non-OK response
\* and at least one model is marked required, the upload button is disabled.
C19_FailedCheckBlocksUpload ==
    (pc = "mounted" /\ check \in {"failed", "threw"} /\ requiredModels # <<>>)
        => UploadDisabled

\* C20: the required_models of the stored and of the downloaded scan result
\* are the `{category}:{model}` paths of the models marked required when the
\* button was clicked, and nothing else.
C20_RequiredModelsAsPaths ==
    /\ stored.scanResult.k = "file" =>
           Range(stored.scanResult.required_models.items) = Range(markedUpload)
    /\ downloaded.k = "file" =>
           Range(downloaded.required_models.items) = Range(markedDownload)

\* The requests whose body has the four fields / lacks one.
Arrived == {r \in Requests : uploads[r].pc # "none"}

\* C21: a request that arrives when workflows/{outputName}/ holds an object is
\* answered 409 and writes no object; a request that lacks one of the four
\* fields is answered 400 and performs no storage operation.
C21_NoWriteIntoExistingFolder ==
    \A r \in Arrived :
        IF MissingUploadFields(uploads[r])
        THEN uploads[r].status = "400" /\ uploads[r].operations = 0
        ELSE uploads[r].existed =>
                 /\ uploads[r].wrote = {}
                 /\ uploads[r].pc = "done" => uploads[r].status = "409"

\* C27: a request answered 400, 409 or 500 has written no object; a request
\* answered 200 has written the workflow JSON and wf-scan-result.json.
C27_AllOrNothing ==
    \A r \in Arrived :
        /\ uploads[r].status \in {"400", "409", "500"} => uploads[r].wrote = {}
        /\ uploads[r].status = "200" =>
               uploads[r].wrote = {uploads[r].workflowFileName, "wf-scan-result.json"}

\* C28: of two requests with the same outputName that arrive while the folder
\* is empty, at most one is answered 200, and neither replaces an object the
\* other wrote.
C28_ConcurrentUploadsExclude ==
    \A r1, r2 \in Arrived :
        (/\ r1 # r2
         /\ uploads[r1].outputName = uploads[r2].outputName
         /\ ~uploads[r1].existed /\ ~uploads[r2].existed)
            => /\ ~(uploads[r1].status = "200" /\ uploads[r2].status = "200")
               /\ r2 \notin uploads[r1].replaced

\* The models of the manifest the script has read, category by category.
ManifestModels ==
    {<<category, i>> \in Categories \X (1..3) :
         i <= Len(TEMP_SCAN_RESULT.models[category])}

\* C22: when the script has run to its end, TOTAL_MODELS is the number of
\* models of the manifest, all thirteen categories counted, and every model
\* with no object at models/{storage folder}/{name} was counted missing.
C22_Step5CoversManifest ==
    (script.pc = "exit" /\ script.exitCode = 0) =>
        /\ script.TOTAL_MODELS = Cardinality(ManifestModels)
        /\ \A row \in ManifestModels :
               LET model == TEMP_SCAN_RESULT.models[row[1]][row[2]]
               IN  ModelKey(ModelType(row[1]), model) \notin bucket =>
                       [category |-> ModelType(row[1]), name |-> String(model)]
                           \in script.missing

\* C23: a custom node whose `comfy node install` exited non-zero is still
\* counted (processed or failed), and the summary is reached with
\* PROCESSED + SKIPPED + FAILED equal to the number of custom nodes.
C23_InstallFailureDoesNotAbort ==
    script # NoScript =>
        /\ script.installFailed \subseteq script.counted
        /\ script.summary =>
               script.PROCESSED + script.SKIPPED + script.FAILED = CUSTOM_NODES_COUNT

\* C25: a stream the server has closed ends with a done event that carries
\* the exit code of the child process.
C25_ClosedStreamEndsWithDone ==
    (stream.pc = "open" /\ stream.closedByServer) =>
        /\ stream.queue # <<>>
        /\ stream.queue[Len(stream.queue)].type = "done"
        /\ stream.queue[Len(stream.queue)].exitCode = stream.exitCode

\* C26: in a stream at most one done event is enqueued and nothing after it,
\* nothing is enqueued after an enqueue that failed, and the event before done
\* is success when the exit code is 0 and error otherwise.
C26_OneDoneLast ==
    stream.pc = "open" =>
        /\ \A i \in 1..Len(stream.queue) :
               stream.queue[i].type = "done" =>
                   /\ i = Len(stream.queue)
                   /\ i > 1
                   /\ stream.queue[i - 1].type =
                          IF stream.queue[i].exitCode = 0 THEN "success" ELSE "error"
        /\ stream.failedAt # -1 => Len(stream.queue) = stream.failedAt

\* The script has ended, done is enqueued, and output came in afterwards.
C26_Witness ==
    /\ stream.pc = "open"
    /\ stream.closeFired
    /\ stream.queue # <<>>
    /\ stream.queue[Len(stream.queue)].type = "done"
    /\ stream.output = MaxOutput
    /\ stream.errorFired

\* C24: while DownloadLogs is shown, before and after the completion callback,
\* exactly one request to /api/run-downloader has been opened.
C24_OneRequestPerUpload ==
    viewer.pc = "mounted" =>
        /\ viewer.opened <= 1
        /\ viewer.opened = 1 \/ viewer.failedToStart

\* C29: onComplete is invoked at most once per mount, with true only after a
\* done event with exit code 0, and once the run has completed an error event
\* appends no log line.
C29_CompleteOnce ==
    viewer.pc = "mounted" =>
        /\ Len(viewer.completions) <= 1
        /\ \A i \in 1..Len(viewer.completions) :
               viewer.completions[i] => viewer.doneZero
        /\ viewer.errorLogsAfterComplete = 0

\* Completed with true, a second source opened, and an error event of it
\* handled after the completion.
C29_Witness ==
    /\ viewer.pc = "mounted"
    /\ viewer.completions = <<TRUE>>
    /\ viewer.opened >= 2
    /\ viewer.silenced

=============================================================================
